---- MODULE Spec2Model ----
(***************************************************************************)
(* The `influx restore` command (cmdRestoreBuilder): the manifest loader   *)
(* loadIncremental, the orchestrator restoreRunE, the full-restore         *)
(* executor restoreFull and the partial-restore executor restorePartial.   *)
(* The run is sequential; pc is the position of the single thread.         *)
(***************************************************************************)
EXTENDS Integers, Sequences, FiniteSets, TLC

(***************************************************************************)
(* Bounds of the model.                                                    *)
(***************************************************************************)
\* Manifest files in the backup directory of the loader's specification.
MaxManifests == 2

\* Manifest file names: n stands for "<timestamp n>.manifest"; the names
\* embed a fixed-width timestamp, so string order is numeric order.
ManifestNames == 1 .. MaxManifests

\* Last-modified timestamps.
Times == {1, 2}

\* Shard IDs (uint64 in the source).
ShardIDs == {1, 2, 3, 4}

\* The shard IDs the loader's specification draws manifests over.
LoadShardIDs == {1, 2}

(***************************************************************************)
(* influxdb.ID and its string form (IDFromString, ID.String).              *)
(***************************************************************************)
\* ID n prints as IDText[n].
IDText == << "0000000000000001", "0000000000000002", "0000000000000003",
             "0000000000000004", "0000000000000005", "0000000000000006" >>

IDs == 1 .. Len(IDText)

\* The zero ID, which is never valid.
NoID == 0

IDString(id) == IF id \in IDs THEN IDText[id] ELSE ""

\* influxdb.IDFromString: the ID whose text is s, or an error.
IDFromString(s) ==
    IF \E id \in IDs : IDText[id] = s
    THEN [ok |-> TRUE, id |-> CHOOSE id \in IDs : IDText[id] = s]
    ELSE [ok |-> FALSE, id |-> NoID]

(***************************************************************************)
(* The manifest model (influxdb.Manifest, ManifestKVEntry, ManifestEntry). *)
(***************************************************************************)
\* File names are tuples; <<>> is the empty string.
NoFile == << >>

KVFile(m) == << "bolt", m >>

ShardFile(m, s) == << "shard", m, s >>

\* The zero value of ManifestKVEntry: what json.Unmarshal leaves when the
\* manifest document holds no "kv" member.
ZeroKV == [FileName |-> NoFile, LastModified |-> 0]

\* No KV entry selected yet (b.kvEntry == nil).
Nil == [FileName |-> << "nil" >>, LastModified |-> -1]

\* The bucket each shard belongs to, as the manifest spells it: shards 1 and
\* 2 are bucket 1's, shard 3 is bucket 2's, shard 4 is bucket 3's.
ShardBucket(s) == IF s = 3 THEN IDString(2) ELSE IF s = 4 THEN IDString(3) ELSE IDString(1)

\* The shard descriptors a manifest may hold over shard IDs S, before its
\* files are named: at most one per shard ID, in ascending shard order.
RECURSIVE FilesOver(_)
FilesOver(S) ==
    IF S = {} THEN { << >> }
    ELSE LET s == CHOOSE x \in S : \A y \in S : x <= y
             rest == FilesOver(S \ {s})
         IN  rest \cup
             { << [ShardID |-> s, BucketID |-> ShardBucket(s),
                   FileName |-> NoFile, LastModified |-> t] >> \o r :
               t \in Times, r \in rest }

\* What one entry of the directory matching *.manifest may be, before its
\* files are named: a directory, a file that cannot be read, a file that is
\* no manifest document, or a manifest with or without a metadata snapshot
\* modified at one of kvTimes.
ManifestShapes(S, kvTimes) ==
    { [kind |-> "file", malformed |-> FALSE, KV |-> kv, Files |-> fs] :
        kv \in {ZeroKV} \cup { [FileName |-> << "bolt" >>, LastModified |-> t] : t \in kvTimes },
        fs \in FilesOver(S) }
    \cup { [kind |-> k, malformed |-> FALSE, KV |-> ZeroKV, Files |-> << >>] :
             k \in {"dir", "unreadable"} }
    \cup { [kind |-> "file", malformed |-> TRUE, KV |-> ZeroKV, Files |-> << >>] }

\* The manifest named m of shape f: its files carry the backup run's name.
Placed(m, f) ==
    [f EXCEPT !.KV = IF f.KV = ZeroKV THEN ZeroKV
                     ELSE [f.KV EXCEPT !.FileName = KVFile(m)],
              !.Files = [i \in 1 .. Len(f.Files) |->
                            [f.Files[i] EXCEPT !.FileName = ShardFile(m, f.Files[i].ShardID)]]]

\* The directories whose manifests are named in names and shaped in shapes.
Directories(names, shapes) ==
    { [m \in DOMAIN sh |-> Placed(m, sh[m])] :
        sh \in UNION { [ns -> shapes] : ns \in SUBSET names } }

\* The shard archives the manifests of directory d name.
Archives(d) ==
    UNION { { d[m].Files[i].FileName : i \in 1 .. Len(d[m].Files) } : m \in DOMAIN d }

\* The metadata snapshots the manifests of directory d name.
Snapshots(d) == { d[m].KV.FileName : m \in DOMAIN d } \ {NoFile}

VARIABLES
    \* the command's flags
    full, org, bucketID, bucketName, newBucketName, newOrgName,
    \* the backup directory b.path: its *.manifest entries and its other files
    dir, disk,
    \* what the backed-up metadata store holds: organizations, buckets, and
    \* the shard catalog (database) of each bucket
    localOrgs, localBuckets, localDBs,
    \* the thread's position and the error restoreRunE returns
    pc, err,
    \* loadIncremental's locals and results
    manifests, idx, reads, kvEntry, shardEntries,
    \* the local metadata-store handle of restorePartial (boltClient)
    boltOpen,
    \* the locals of restoreOrganizations, restoreOrganization, restoreBucket
    orgs, curOrg, newOrg, buckets, bkt, newBucket, shardIDMap,
    \* the keys of shardEntries a range loop has still to visit
    pending,
    \* the remote server: its metadata store, organizations, buckets, shard
    \* catalogs and shard data
    remoteKV, remoteOrgs, remoteBuckets, remoteDBs, remoteShards,
    \* every remote call made so far in this run, in order
    calls,
    \* the remote calls of each earlier run of the command against the same
    \* server, one sequence per run
    earlier

flagVars == << full, org, bucketID, bucketName, newBucketName, newOrgName >>
pathVars == << dir, disk >>
snapVars == << localOrgs, localBuckets, localDBs >>
\* What no step of a run changes: its inputs, and the record of earlier runs.
inputVars == << flagVars, pathVars, snapVars, earlier >>
loadVars == << manifests, idx, reads, kvEntry, shardEntries >>
partVars == << orgs, curOrg, newOrg, buckets, bkt, newBucket, shardIDMap >>
remoteVars == << remoteKV, remoteOrgs, remoteBuckets, remoteDBs, remoteShards >>
vars == << inputVars, pc, err, loadVars, boltOpen, partVars, pending, remoteVars, calls >>

\* What the loader leaves alone.
restVars == << boltOpen, partVars, pending, remoteVars, calls >>

(***************************************************************************)
(* loadIncremental                                                         *)
(***************************************************************************)
\* sort.Sort(sort.Reverse(sort.StringSlice(manifests))): the names in
\* descending order.
RECURSIVE SortDescending(_)
SortDescending(S) ==
    IF S = {} THEN << >>
    ELSE LET top == CHOOSE x \in S : \A y \in S : y <= x
         IN  << top >> \o SortDescending(S \ {top})

\* A sort that leaves the names in ascending order.
RECURSIVE SortAscending(_)
SortAscending(S) ==
    IF S = {} THEN << >>
    ELSE LET low == CHOOSE x \in S : \A y \in S : x <= y
         IN  << low >> \o SortAscending(S \ {low})

\* The names listed without reversing the sort.
ListManifestsAscending(d) == SortAscending(DOMAIN d)

\* Lines 350 and 356: the *.manifest names of directory d, sorted.
ListManifests(d) == SortDescending(DOMAIN d)

\* A stat that never reports a missing file.
FileExistsAlways(dk, name) == TRUE

\* os.Stat(filepath.Join(b.path, name)) succeeds.
FileExists(dk, name) == name \in dk

\* A comparison the wrong way round.
Before(t, u) == t < u

\* A comparison that also holds of equal times.
AtOrAfter(t, u) == t >= u

\* sh.LastModified.After(entry.LastModified)
After(t, u) == t > u

\* Lines 381-391: the shard descriptors of one manifest folded into the plan.
RECURSIVE MergeFiles(_, _, _)
MergeFiles(entries, files, dk) ==
    IF files = << >> THEN entries
    ELSE LET sh == Head(files)
             kept ==
                 IF ~FileExists(dk, sh.FileName) THEN entries
                 ELSE IF sh.ShardID \notin DOMAIN entries
                         \/ After(sh.LastModified, entries[sh.ShardID].LastModified)
                      THEN [s \in DOMAIN entries \cup {sh.ShardID} |->
                              IF s = sh.ShardID THEN sh ELSE entries[s]]
                      ELSE entries
         IN  MergeFiles(kept, Tail(files), dk)

\* Lines 376-378: the first manifest read sets the KV entry.
SaveKV(kv, manifest) == IF kv = Nil THEN manifest.KV ELSE kv

EmptyPlan == [s \in {} |-> ZeroKV]

\* Lines 350-358: list the manifests and sort them.
LoadGlob ==
    /\ pc = "load"
    /\ IF DOMAIN dir = {}
       THEN /\ pc' = "loaded"
            /\ UNCHANGED << manifests, shardEntries, idx >>
       ELSE /\ manifests' = ListManifests(dir)
            /\ shardEntries' = EmptyPlan
            /\ idx' = 1
            /\ pc' = "manifest"
    /\ UNCHANGED << inputVars, err, reads, kvEntry, restVars >>

\* A loop that passes over a manifest it cannot parse.
LoadManifestSkipMalformed ==
    /\ pc = "manifest"
    /\ idx <= Len(manifests)
    /\ LET name == manifests[idx]
           f == dir[name]
       IN  \/ /\ f.kind = "unreadable"
              /\ pc' = "done"
              /\ err' = "restore failed while processing manifest files"
              /\ UNCHANGED << idx, reads, kvEntry, shardEntries >>
           \/ /\ f.kind = "dir"
              /\ idx' = idx + 1
              /\ UNCHANGED << pc, err, reads, kvEntry, shardEntries >>
           \/ /\ f.kind = "file"
              /\ f.malformed
              /\ reads' = reads \cup {name}
              /\ idx' = idx + 1
              /\ UNCHANGED << pc, err, kvEntry, shardEntries >>
           \/ /\ f.kind = "file"
              /\ ~f.malformed
              /\ reads' = reads \cup {name}
              /\ kvEntry' = SaveKV(kvEntry, f)
              /\ shardEntries' = MergeFiles(shardEntries, f.Files, disk)
              /\ idx' = idx + 1
              /\ UNCHANGED << pc, err >>
    /\ UNCHANGED << inputVars, manifests, restVars >>

\* Lines 359-392: one iteration of the loop over the manifests.
LoadManifest ==
    /\ pc = "manifest"
    /\ idx <= Len(manifests)
    /\ LET name == manifests[idx]
           f == dir[name]
       IN  \/ /\ f.kind = "unreadable"
              /\ pc' = "done"
              /\ err' = "restore failed while processing manifest files"
              /\ UNCHANGED << idx, reads, kvEntry, shardEntries >>
           \/ /\ f.kind = "dir"
              /\ idx' = idx + 1
              /\ UNCHANGED << pc, err, reads, kvEntry, shardEntries >>
           \/ /\ f.kind = "file"
              /\ f.malformed
              /\ reads' = reads \cup {name}
              /\ pc' = "done"
              /\ err' = "restore failed while processing manifest files"
              /\ UNCHANGED << idx, kvEntry, shardEntries >>
           \/ /\ f.kind = "file"
              /\ ~f.malformed
              /\ reads' = reads \cup {name}
              /\ kvEntry' = SaveKV(kvEntry, f)
              /\ shardEntries' = MergeFiles(shardEntries, f.Files, disk)
              /\ idx' = idx + 1
              /\ UNCHANGED << pc, err >>
    /\ UNCHANGED << inputVars, manifests, restVars >>

\* Line 394: the loop is over.
LoadReturn ==
    /\ pc = "manifest"
    /\ idx > Len(manifests)
    /\ pc' = "loaded"
    /\ UNCHANGED << inputVars, err, loadVars, restVars >>

(***************************************************************************)
(* The remote server and the local copy of the metadata store, as the      *)
(* command sees them through its service clients.                          *)
(***************************************************************************)
NoOrg == [ID |-> NoID, Name |-> ""]

NoBucket == [ID |-> NoID, OrgID |-> NoID, Name |-> ""]

NoMap == [s \in {} |-> 0]

\* One remote call: the endpoint, whether it succeeded, the ID it was given
\* or returned, the backup-time ID it stands for, and the name, organization
\* and file it carried.
Call(op, ok, id, from, name, orgID, file) ==
    [op |-> op, ok |-> ok, id |-> id, from |-> from, name |-> name,
     org |-> orgID, file |-> file]

\* The IDs the remote server hands out.
RemoteIDs == {4, 5, 6}

\* The ID the remote server gives the next organization or bucket.
NewID(existing) ==
    LET free == RemoteIDs \ { x.ID : x \in existing }
    IN  IF free = {} THEN NoID ELSE CHOOSE x \in free : \A y \in free : x <= y

\* The shard ID the remote server assigns to backup shard s in the n-th
\* shard catalog it creates.
RemoteShardID(n, s) == 10 * n + s

\* tenantService.FindOrganizations on the local copy.
FindOrganizations(filter) ==
    { o \in localOrgs :
        /\ filter.ID # NoID => o.ID = filter.ID
        /\ filter.Name # "" => o.Name = filter.Name }

\* tenantService.FindBuckets on the local copy.
FindBuckets(filter) ==
    { b \in localBuckets :
        /\ b.OrgID = filter.OrganizationID
        /\ filter.ID # NoID => b.ID = filter.ID
        /\ filter.Name # "" => b.Name = filter.Name }

\* strings.HasPrefix(bkt.Name, "_")
IsInternal(name) == name \in {"_tasks", "_monitoring"}

\* An error return that runs no deferred call.
AbortLeavingOpen(e) ==
    /\ pc' = "done"
    /\ err' = e
    /\ boltOpen' = boltOpen

\* Every return of an error: restoreRunE ends, and restorePartial's deferred
\* boltClient.Close() runs when the handle was opened.
Abort(e) ==
    /\ pc' = "done"
    /\ err' = e
    /\ boltOpen' = IF boltOpen = "open" THEN "closed" ELSE boltOpen

(***************************************************************************)
(* restoreRunE                                                             *)
(***************************************************************************)
\* Lines 100-105: a rename needs a source filter.
RenameWithoutFilter(newName, id, name) == newName # "" /\ id = "" /\ name = ""

\* A check of the organization rename alone.
ValidateOrgOnly ==
    /\ pc = "start"
    /\ IF RenameWithoutFilter(newOrgName, org.id, org.name)
       THEN /\ pc' = "done"
            /\ err' = "must specify source org id or name when renaming restored org"
       ELSE /\ pc' = "load"
            /\ UNCHANGED err
    /\ UNCHANGED << inputVars, loadVars, restVars >>

Validate ==
    /\ pc = "start"
    /\ IF RenameWithoutFilter(newOrgName, org.id, org.name)
       THEN /\ pc' = "done"
            /\ err' = "must specify source org id or name when renaming restored org"
       ELSE IF RenameWithoutFilter(newBucketName, bucketID, bucketName)
       THEN /\ pc' = "done"
            /\ err' = "must specify source bucket id or name when renaming restored bucket"
       ELSE /\ pc' = "load"
            /\ UNCHANGED err
    /\ UNCHANGED << inputVars, loadVars, restVars >>

\* A dispatch that does not look at the plan.
DispatchUnchecked ==
    /\ pc = "loaded"
    /\ \/ /\ Abort("cannot build http client")
       \/ /\ pc' = IF full THEN "full" ELSE "partial"
          /\ UNCHANGED << err, boltOpen >>
    /\ UNCHANGED << inputVars, loadVars, partVars, pending, remoteVars, calls >>

\* A dispatch that takes a filter as a request for a partial restore.
DispatchByFilter ==
    /\ pc = "loaded"
    /\ \/ /\ kvEntry = Nil
          /\ Abort("no manifest files found")
       \/ /\ kvEntry # Nil
          /\ Abort("cannot build http client")
       \/ /\ kvEntry # Nil
          /\ pc' = IF full /\ org.id = "" /\ org.name = "" /\ bucketID = "" /\ bucketName = ""
                   THEN "full" ELSE "partial"
          /\ UNCHANGED << err, boltOpen >>
    /\ UNCHANGED << inputVars, loadVars, partVars, pending, remoteVars, calls >>

\* Lines 108-132: the plan is checked, the clients are built, one executor is
\* chosen.
Dispatch ==
    /\ pc = "loaded"
    /\ \/ /\ kvEntry = Nil
          /\ Abort("no manifest files found")
       \/ /\ kvEntry # Nil
          /\ Abort("cannot build http client")
       \/ /\ kvEntry # Nil
          /\ pc' = IF full THEN "full" ELSE "partial"
          /\ UNCHANGED << err, boltOpen >>
    /\ UNCHANGED << inputVars, loadVars, partVars, pending, remoteVars, calls >>

(***************************************************************************)
(* restoreShard                                                            *)
(***************************************************************************)
\* Lines 332-342: the archive cannot be opened or is no gzip stream.
RestoreShardUnreadable ==
    /\ Abort("cannot read shard archive")
    /\ UNCHANGED << remoteVars, calls >>

\* Line 344: the call is made and fails.
RestoreShardRefused(newShardID, file) ==
    /\ calls' = Append(calls, Call("RestoreShard", FALSE, newShardID, file.ShardID,
                                   "", NoID, file.FileName))
    /\ Abort("restore shard failed")
    /\ UNCHANGED remoteVars

\* Line 344: the call is made and the server stores the shard.
RestoreShardDone(newShardID, file) ==
    /\ calls' = Append(calls, Call("RestoreShard", TRUE, newShardID, file.ShardID,
                                   "", NoID, file.FileName))
    /\ remoteShards' =
          [id \in DOMAIN remoteShards \cup {newShardID} |->
              IF id = newShardID THEN file.FileName ELSE remoteShards[id]]
    /\ UNCHANGED << remoteKV, remoteOrgs, remoteBuckets, remoteDBs >>

(***************************************************************************)
(* restoreFull                                                             *)
(***************************************************************************)
\* A replacement whose failure is not looked at.
RestoreKVStoreUnchecked ==
    /\ pc = "full"
    /\ \E ok \in BOOLEAN :
          /\ ok => kvEntry.FileName \in disk
          /\ calls' = Append(calls, Call("RestoreKVStore", ok, NoID, NoID, "",
                                         NoID, kvEntry.FileName))
          /\ remoteKV' = IF ok THEN kvEntry.FileName ELSE remoteKV
          /\ remoteOrgs' = IF ok THEN localOrgs ELSE remoteOrgs
          /\ remoteBuckets' = IF ok THEN localBuckets ELSE remoteBuckets
    /\ pending' = DOMAIN shardEntries
    /\ pc' = "shards"
    /\ UNCHANGED << inputVars, err, loadVars, boltOpen, partVars, remoteDBs, remoteShards >>

\* Lines 137-139 and 151-164: the metadata snapshot replaces the server's.
RestoreKVStore ==
    /\ pc = "full"
    /\ \/ /\ Abort("cannot open metadata snapshot")
          /\ UNCHANGED << remoteVars, calls, pending >>
       \/ /\ calls' = Append(calls, Call("RestoreKVStore", FALSE, NoID, NoID, "",
                                         NoID, kvEntry.FileName))
          /\ Abort("restore metadata failed")
          /\ UNCHANGED << remoteVars, pending >>
       \/ /\ kvEntry.FileName \in disk
          /\ calls' = Append(calls, Call("RestoreKVStore", TRUE, NoID, NoID, "",
                                         NoID, kvEntry.FileName))
          /\ remoteKV' = kvEntry.FileName
          /\ remoteOrgs' = localOrgs
          /\ remoteBuckets' = localBuckets
          /\ UNCHANGED << remoteDBs, remoteShards >>
          /\ pending' = DOMAIN shardEntries
          /\ pc' = "shards"
          /\ UNCHANGED << err, boltOpen >>
    /\ UNCHANGED << inputVars, loadVars, partVars >>

\* A loop that goes on after a transfer failed.
RestoreFullShardContinue ==
    /\ pc = "shards"
    /\ \E s \in pending :
          LET file == shardEntries[s]
          IN  /\ \/ /\ calls' = Append(calls, Call("RestoreShard", FALSE, file.ShardID,
                                                   file.ShardID, "", NoID, file.FileName))
                    /\ UNCHANGED remoteVars
                 \/ RestoreShardDone(file.ShardID, file)
              /\ pending' = pending \ {s}
    /\ UNCHANGED << inputVars, pc, err, loadVars, boltOpen, partVars >>

\* Line 143: the ID a shard is restored under.
FullShardID(file) == file.ShardID

\* A range that may yield a key it has yielded before.
RestoreFullShardRevisit ==
    /\ pc = "shards"
    /\ \E s \in DOMAIN shardEntries :
          LET file == shardEntries[s]
          IN  \/ RestoreShardUnreadable /\ UNCHANGED pending
              \/ RestoreShardRefused(FullShardID(file), file) /\ UNCHANGED pending
              \/ /\ RestoreShardDone(FullShardID(file), file)
                 /\ pending' = pending \ {s}
                 /\ UNCHANGED << pc, err, boltOpen >>
    /\ UNCHANGED << inputVars, loadVars, partVars >>

\* Lines 142-146: one iteration of the range over b.shardEntries, in whatever
\* order the map yields its keys.
RestoreFullShard ==
    /\ pc = "shards"
    /\ \E s \in pending :
          LET file == shardEntries[s]
          IN  \/ RestoreShardUnreadable /\ UNCHANGED pending
              \/ RestoreShardRefused(FullShardID(file), file) /\ UNCHANGED pending
              \/ /\ RestoreShardDone(FullShardID(file), file)
                 /\ pending' = pending \ {s}
                 /\ UNCHANGED << pc, err, boltOpen >>
    /\ UNCHANGED << inputVars, loadVars, partVars >>

\* A return from inside the loop.
RestoreFullReturnEarly ==
    /\ pc = "shards"
    /\ pc' = "done"
    /\ UNCHANGED << inputVars, err, loadVars, restVars >>

\* Line 148: every entry was visited.
RestoreFullReturn ==
    /\ pc = "shards"
    /\ pending = {}
    /\ pc' = "done"
    /\ UNCHANGED << inputVars, err, loadVars, restVars >>

(***************************************************************************)
(* restorePartial                                                          *)
(***************************************************************************)
\* A partial restore that first pushes the snapshot, as restoreFull does.
OpenBoltAndReplace ==
    /\ pc = "partial"
    /\ kvEntry.FileName \in disk
    /\ calls' = Append(calls, Call("RestoreKVStore", TRUE, NoID, NoID, "", NoID,
                                   kvEntry.FileName))
    /\ remoteKV' = kvEntry.FileName
    /\ remoteOrgs' = localOrgs
    /\ remoteBuckets' = localBuckets
    /\ boltOpen' = "open"
    /\ pc' = "orgs"
    /\ UNCHANGED << inputVars, err, loadVars, partVars, pending, remoteDBs, remoteShards >>

\* Lines 169-187: the local copy of the metadata store is opened.
OpenBolt ==
    /\ pc = "partial"
    /\ \/ /\ Abort("cannot open bolt")
       \/ /\ kvEntry.FileName \in disk
          /\ pc' = "done"
          /\ err' = "cannot open meta client"
          /\ boltOpen' = "closed"
       \/ /\ kvEntry.FileName \in disk
          /\ boltOpen' = "open"
          /\ pc' = "orgs"
          /\ UNCHANGED err
    /\ UNCHANGED << inputVars, loadVars, partVars, pending, remoteVars, calls >>

\* No organization filter at all.
OrgFilterNone == [ID |-> NoID, Name |-> ""]

\* A filter on the ID and the name together.
OrgFilterBoth ==
    [ID |-> IF org.id # "" THEN IDFromString(org.id).id ELSE NoID, Name |-> org.name]

\* Lines 200-208: the organization filter.
OrgFilter ==
    IF org.id # "" THEN [ID |-> IDFromString(org.id).id, Name |-> ""]
    ELSE [ID |-> NoID, Name |-> org.name]

\* Lines 199-214: the organizations to restore are listed.
RestoreOrganizations ==
    /\ pc = "orgs"
    /\ \/ /\ org.id # ""
          /\ ~IDFromString(org.id).ok
          /\ Abort("invalid organization id")
          /\ UNCHANGED orgs
       \/ /\ org.id # "" => IDFromString(org.id).ok
          /\ Abort("cannot find organizations")
          /\ UNCHANGED orgs
       \/ /\ org.id # "" => IDFromString(org.id).ok
          /\ orgs' = FindOrganizations(OrgFilter)
          /\ pc' = "org"
          /\ UNCHANGED << err, boltOpen >>
    /\ UNCHANGED << inputVars, loadVars, curOrg, newOrg, buckets, bkt, newBucket,
                    shardIDMap, pending, remoteVars, calls >>

\* A return that reports an error when no bucket was restored.
RestorePartialReturnNothingRestored ==
    /\ pc = "org"
    /\ orgs = {}
    /\ pc' = "done"
    /\ err' = IF \E j \in 1 .. Len(calls) : calls[j].op = "CreateBucket"
              THEN err ELSE "nothing restored"
    /\ boltOpen' = "closed"
    /\ UNCHANGED << inputVars, loadVars, partVars, pending, remoteVars, calls >>

\* Lines 190-196 and 222: every organization is done; restorePartial returns.
RestorePartialReturn ==
    /\ pc = "org"
    /\ orgs = {}
    /\ pc' = "done"
    /\ boltOpen' = "closed"
    /\ UNCHANGED << inputVars, err, loadVars, partVars, pending, remoteVars, calls >>

\* Lines 228-231: the organization as it is to be named on the server.
Renamed(x, newName) == IF newName # "" THEN [x EXCEPT !.Name = newName] ELSE x

\* A lookup whose answer is not used: the organization found keeps the
\* backup's ID.
RestoreOrganizationKeepID ==
    /\ pc = "org"
    /\ \E o \in orgs :
          LET target == Renamed(o, newOrgName)
              found == { r \in remoteOrgs : r.Name = target.Name }
              find(ok) == Call("FindOrganization", ok, NoID, o.ID, target.Name,
                               NoID, NoFile)
              create(ok, id) == Call("CreateOrganization", ok, id, o.ID,
                                     target.Name, NoID, NoFile)
          IN  /\ orgs' = orgs \ {o}
              /\ curOrg' = o
              /\ \/ /\ calls' = Append(calls, find(FALSE))
                    /\ Abort("cannot find existing organization")
                    /\ UNCHANGED << newOrg, remoteOrgs >>
                 \/ /\ found # {}
                    /\ calls' = Append(calls, find(TRUE))
                    /\ newOrg' = target
                    /\ pc' = "buckets"
                    /\ UNCHANGED << err, boltOpen, remoteOrgs >>
                 \/ /\ found = {}
                    /\ calls' = calls \o << find(FALSE), create(FALSE, NoID) >>
                    /\ Abort("cannot create organization")
                    /\ UNCHANGED << newOrg, remoteOrgs >>
                 \/ /\ found = {}
                    /\ NewID(remoteOrgs) # NoID
                    /\ calls' = calls \o << find(FALSE), create(TRUE, NewID(remoteOrgs)) >>
                    /\ newOrg' = [target EXCEPT !.ID = NewID(remoteOrgs)]
                    /\ remoteOrgs' = remoteOrgs \cup {newOrg'}
                    /\ pc' = "buckets"
                    /\ UNCHANGED << err, boltOpen >>
    /\ UNCHANGED << inputVars, loadVars, buckets, bkt, newBucket, shardIDMap, pending,
                    remoteKV, remoteBuckets, remoteDBs, remoteShards >>

\* Lines 217 and 226-242: the next organization is looked up on the server by
\* its target name and created when the server reports it not found.
RestoreOrganization ==
    /\ pc = "org"
    /\ \E o \in orgs :
          LET target == Renamed(o, newOrgName)
              found == { r \in remoteOrgs : r.Name = target.Name }
              find(ok) == Call("FindOrganization", ok, NoID, o.ID, target.Name,
                               NoID, NoFile)
              create(ok, id) == Call("CreateOrganization", ok, id, o.ID,
                                     target.Name, NoID, NoFile)
          IN  /\ orgs' = orgs \ {o}
              /\ curOrg' = o
              /\ \/ /\ calls' = Append(calls, find(FALSE))
                    /\ Abort("cannot find existing organization")
                    /\ UNCHANGED << newOrg, remoteOrgs >>
                 \/ /\ found # {}
                    /\ calls' = Append(calls, find(TRUE))
                    /\ newOrg' = [target EXCEPT !.ID = (CHOOSE r \in found : TRUE).ID]
                    /\ pc' = "buckets"
                    /\ UNCHANGED << err, boltOpen, remoteOrgs >>
                 \/ /\ found = {}
                    /\ calls' = calls \o << find(FALSE), create(FALSE, NoID) >>
                    /\ Abort("cannot create organization")
                    /\ UNCHANGED << newOrg, remoteOrgs >>
                 \/ /\ found = {}
                    /\ NewID(remoteOrgs) # NoID
                    /\ calls' = calls \o << find(FALSE), create(TRUE, NewID(remoteOrgs)) >>
                    /\ newOrg' = [target EXCEPT !.ID = NewID(remoteOrgs)]
                    /\ remoteOrgs' = remoteOrgs \cup {newOrg'}
                    /\ pc' = "buckets"
                    /\ UNCHANGED << err, boltOpen >>
    /\ UNCHANGED << inputVars, loadVars, buckets, bkt, newBucket, shardIDMap, pending,
                    remoteKV, remoteBuckets, remoteDBs, remoteShards >>

\* A filter on the organization alone.
BucketFilterOrgOnly == [OrganizationID |-> curOrg.ID, ID |-> NoID, Name |-> ""]

\* A filter on the target organization's ID on the server.
BucketFilterRemoteOrg ==
    IF bucketID # ""
    THEN [OrganizationID |-> newOrg.ID, ID |-> IDFromString(bucketID).id, Name |-> ""]
    ELSE [OrganizationID |-> newOrg.ID, ID |-> NoID, Name |-> bucketName]

\* Lines 244-253: the bucket filter, on the backup's organization ID.
BucketFilter ==
    IF bucketID # ""
    THEN [OrganizationID |-> curOrg.ID, ID |-> IDFromString(bucketID).id, Name |-> ""]
    ELSE [OrganizationID |-> curOrg.ID, ID |-> NoID, Name |-> bucketName]

\* Lines 244-259: the organization's buckets are listed from the local copy.
ListBuckets ==
    /\ pc = "buckets"
    /\ \/ /\ bucketID # ""
          /\ ~IDFromString(bucketID).ok
          /\ Abort("invalid bucket id")
          /\ UNCHANGED buckets
       \/ /\ bucketID # "" => IDFromString(bucketID).ok
          /\ Abort("cannot find buckets")
          /\ UNCHANGED buckets
       \/ /\ bucketID # "" => IDFromString(bucketID).ok
          /\ buckets' = FindBuckets(BucketFilter)
          /\ pc' = "bucket"
          /\ UNCHANGED << err, boltOpen >>
    /\ UNCHANGED << inputVars, loadVars, orgs, curOrg, newOrg, bkt, newBucket,
                    shardIDMap, pending, remoteVars, calls >>

\* Line 275: every bucket of the organization is done.
RestoreOrganizationReturn ==
    /\ pc = "bucket"
    /\ buckets = {}
    /\ pc' = "org"
    /\ UNCHANGED << inputVars, err, loadVars, boltOpen, partVars, pending, remoteVars,
                    calls >>

\* Lines 262-266: an internal bucket is passed over.
SkipInternalBucket ==
    /\ pc = "bucket"
    /\ \E b \in buckets :
          /\ IsInternal(b.Name)
          /\ buckets' = buckets \ {b}
    /\ UNCHANGED << inputVars, pc, err, loadVars, boltOpen, orgs, curOrg, newOrg, bkt,
                    newBucket, shardIDMap, pending, remoteVars, calls >>

\* A creation whose error is not looked at: the bucket goes on to its catalog.
CreateBucketUnchecked ==
    /\ pc = "bucket"
    /\ \E b \in buckets :
          LET clone == [b EXCEPT !.OrgID = newOrg.ID]
              target == Renamed(clone, newBucketName)
              create(ok, id) == Call("CreateBucket", ok, id, b.ID, target.Name,
                                     target.OrgID, NoFile)
          IN  /\ ~IsInternal(b.Name)
              /\ buckets' = buckets \ {b}
              /\ bkt' = clone
              /\ calls' = Append(calls, create(FALSE, NoID))
              /\ newBucket' = target
              /\ pc' = "catalog"
    /\ UNCHANGED << inputVars, err, boltOpen, loadVars, orgs, curOrg, newOrg, shardIDMap,
                    pending, remoteVars >>

\* A creation that does not pass over internal buckets.
CreateBucketAny ==
    /\ pc = "bucket"
    /\ \E b \in buckets :
          LET clone == [b EXCEPT !.OrgID = newOrg.ID]
              target == Renamed(clone, newBucketName)
              taken == \E r \in remoteBuckets :
                           r.OrgID = target.OrgID /\ r.Name = target.Name
              create(ok, id) == Call("CreateBucket", ok, id, b.ID, target.Name,
                                     target.OrgID, NoFile)
          IN  /\ buckets' = buckets \ {b}
              /\ bkt' = clone
              /\ \/ /\ calls' = Append(calls, create(FALSE, NoID))
                    /\ Abort("cannot create bucket")
                    /\ UNCHANGED << newBucket, remoteBuckets >>
                 \/ /\ ~taken
                    /\ NewID(remoteBuckets) # NoID
                    /\ calls' = Append(calls, create(TRUE, NewID(remoteBuckets)))
                    /\ newBucket' = [target EXCEPT !.ID = NewID(remoteBuckets)]
                    /\ remoteBuckets' = remoteBuckets \cup {newBucket'}
                    /\ pc' = "catalog"
                    /\ UNCHANGED << err, boltOpen >>
    /\ UNCHANGED << inputVars, loadVars, orgs, curOrg, newOrg, shardIDMap, pending,
                    remoteKV, remoteOrgs, remoteDBs, remoteShards >>

\* A creation made only after the bucket's catalog was found in the local
\* copy.
CreateBucketAfterLookup ==
    /\ pc = "bucket"
    /\ \E b \in buckets :
          LET clone == [b EXCEPT !.OrgID = newOrg.ID]
              target == Renamed(clone, newBucketName)
              taken == \E r \in remoteBuckets :
                           r.OrgID = target.OrgID /\ r.Name = target.Name
              create(ok, id) == Call("CreateBucket", ok, id, b.ID, target.Name,
                                     target.OrgID, NoFile)
          IN  /\ ~IsInternal(b.Name)
              /\ buckets' = buckets \ {b}
              /\ bkt' = clone
              /\ \/ /\ IDString(b.ID) \notin DOMAIN localDBs
                    /\ Abort("bucket database not found")
                    /\ UNCHANGED << newBucket, remoteBuckets, calls >>
                 \/ /\ IDString(b.ID) \in DOMAIN localDBs
                    /\ calls' = Append(calls, create(FALSE, NoID))
                    /\ Abort("cannot create bucket")
                    /\ UNCHANGED << newBucket, remoteBuckets >>
                 \/ /\ IDString(b.ID) \in DOMAIN localDBs
                    /\ ~taken
                    /\ NewID(remoteBuckets) # NoID
                    /\ calls' = Append(calls, create(TRUE, NewID(remoteBuckets)))
                    /\ newBucket' = [target EXCEPT !.ID = NewID(remoteBuckets)]
                    /\ remoteBuckets' = remoteBuckets \cup {newBucket'}
                    /\ pc' = "catalog"
                    /\ UNCHANGED << err, boltOpen >>
    /\ UNCHANGED << inputVars, loadVars, orgs, curOrg, newOrg, shardIDMap, pending,
                    remoteKV, remoteOrgs, remoteDBs, remoteShards >>

\* Lines 268-288: the next bucket is cloned into the target organization and
\* created on the server, which refuses a name the organization already has.
CreateBucket ==
    /\ pc = "bucket"
    /\ \E b \in buckets :
          LET clone == [b EXCEPT !.OrgID = newOrg.ID]
              target == Renamed(clone, newBucketName)
              taken == \E r \in remoteBuckets :
                           r.OrgID = target.OrgID /\ r.Name = target.Name
              create(ok, id) == Call("CreateBucket", ok, id, b.ID, target.Name,
                                     target.OrgID, NoFile)
          IN  /\ ~IsInternal(b.Name)
              /\ buckets' = buckets \ {b}
              /\ bkt' = clone
              /\ \/ /\ calls' = Append(calls, create(FALSE, NoID))
                    /\ Abort("cannot create bucket")
                    /\ UNCHANGED << newBucket, remoteBuckets >>
                 \/ /\ ~taken
                    /\ NewID(remoteBuckets) # NoID
                    /\ calls' = Append(calls, create(TRUE, NewID(remoteBuckets)))
                    /\ newBucket' = [target EXCEPT !.ID = NewID(remoteBuckets)]
                    /\ remoteBuckets' = remoteBuckets \cup {newBucket'}
                    /\ pc' = "catalog"
                    /\ UNCHANGED << err, boltOpen >>
    /\ UNCHANGED << inputVars, loadVars, orgs, curOrg, newOrg, shardIDMap, pending,
                    remoteKV, remoteOrgs, remoteDBs, remoteShards >>

\* A bucket whose catalog is missing from the local copy is passed over.
RestoreBucketCatalogSkipMissing ==
    /\ pc = "catalog"
    /\ LET name == IDString(bkt.ID)
           n == Cardinality(DOMAIN remoteDBs) + 1
           restore(ok) == Call("RestoreBucket", ok, newBucket.ID, bkt.ID, "", NoID,
                               NoFile)
       IN  \/ /\ name \notin DOMAIN localDBs
              /\ pc' = "bucket"
              /\ UNCHANGED << err, boltOpen, shardIDMap, pending, remoteDBs, calls >>
           \/ /\ name \in DOMAIN localDBs
              /\ Abort("cannot marshal database info")
              /\ UNCHANGED << shardIDMap, pending, remoteDBs, calls >>
           \/ /\ name \in DOMAIN localDBs
              /\ calls' = Append(calls, restore(FALSE))
              /\ Abort("cannot restore bucket")
              /\ UNCHANGED << shardIDMap, pending, remoteDBs >>
           \/ /\ name \in DOMAIN localDBs
              /\ calls' = Append(calls, restore(TRUE))
              /\ shardIDMap' = [s \in localDBs[name] |-> RemoteShardID(n, s)]
              /\ remoteDBs' =
                    [id \in DOMAIN remoteDBs \cup {newBucket.ID} |->
                        IF id = newBucket.ID
                        THEN { RemoteShardID(n, s) : s \in localDBs[name] }
                        ELSE remoteDBs[id]]
              /\ pending' = DOMAIN shardEntries
              /\ pc' = "bshards"
              /\ UNCHANGED << err, boltOpen >>
    /\ UNCHANGED << inputVars, loadVars, orgs, curOrg, newOrg, buckets, bkt, newBucket,
                    remoteKV, remoteOrgs, remoteBuckets, remoteShards >>

\* A catalog restore keyed by the bucket's backup-time ID.
RestoreBucketCatalogBackupID ==
    /\ pc = "catalog"
    /\ LET name == IDString(bkt.ID)
           n == Cardinality(DOMAIN remoteDBs) + 1
           restore(ok) == Call("RestoreBucket", ok, bkt.ID, bkt.ID, "", NoID, NoFile)
       IN  \/ /\ name \notin DOMAIN localDBs
              /\ Abort("bucket database not found")
              /\ UNCHANGED << shardIDMap, pending, remoteDBs, calls >>
           \/ /\ name \in DOMAIN localDBs
              /\ Abort("cannot marshal database info")
              /\ UNCHANGED << shardIDMap, pending, remoteDBs, calls >>
           \/ /\ name \in DOMAIN localDBs
              /\ calls' = Append(calls, restore(FALSE))
              /\ Abort("cannot restore bucket")
              /\ UNCHANGED << shardIDMap, pending, remoteDBs >>
           \/ /\ name \in DOMAIN localDBs
              /\ calls' = Append(calls, restore(TRUE))
              /\ shardIDMap' = [s \in localDBs[name] |-> RemoteShardID(n, s)]
              /\ remoteDBs' =
                    [id \in DOMAIN remoteDBs \cup {bkt.ID} |->
                        IF id = bkt.ID
                        THEN { RemoteShardID(n, s) : s \in localDBs[name] }
                        ELSE remoteDBs[id]]
              /\ pending' = DOMAIN shardEntries
              /\ pc' = "bshards"
              /\ UNCHANGED << err, boltOpen >>
    /\ UNCHANGED << inputVars, loadVars, orgs, curOrg, newOrg, buckets, bkt, newBucket,
                    remoteKV, remoteOrgs, remoteBuckets, remoteShards >>

\* Lines 290-306: the bucket's shard catalog is read from the local copy and
\* created on the server, which answers with the new ID of each of its shards.
RestoreBucketCatalog ==
    /\ pc = "catalog"
    /\ LET name == IDString(bkt.ID)
           n == Cardinality(DOMAIN remoteDBs) + 1
           restore(ok) == Call("RestoreBucket", ok, newBucket.ID, bkt.ID, "", NoID,
                               NoFile)
       IN  \/ /\ name \notin DOMAIN localDBs
              /\ Abort("bucket database not found")
              /\ UNCHANGED << shardIDMap, pending, remoteDBs, calls >>
           \/ /\ name \in DOMAIN localDBs
              /\ Abort("cannot marshal database info")
              /\ UNCHANGED << shardIDMap, pending, remoteDBs, calls >>
           \/ /\ name \in DOMAIN localDBs
              /\ calls' = Append(calls, restore(FALSE))
              /\ Abort("cannot restore bucket")
              /\ UNCHANGED << shardIDMap, pending, remoteDBs >>
           \/ /\ name \in DOMAIN localDBs
              /\ calls' = Append(calls, restore(TRUE))
              /\ shardIDMap' = [s \in localDBs[name] |-> RemoteShardID(n, s)]
              /\ remoteDBs' =
                    [id \in DOMAIN remoteDBs \cup {newBucket.ID} |->
                        IF id = newBucket.ID
                        THEN { RemoteShardID(n, s) : s \in localDBs[name] }
                        ELSE remoteDBs[id]]
              /\ pending' = DOMAIN shardEntries
              /\ pc' = "bshards"
              /\ UNCHANGED << err, boltOpen >>
    /\ UNCHANGED << inputVars, loadVars, orgs, curOrg, newOrg, buckets, bkt, newBucket,
                    remoteKV, remoteOrgs, remoteBuckets, remoteShards >>

\* A shard loop that transfers each shard under its backup-time ID.
RestoreBucketShardOriginalID ==
    /\ pc = "bshards"
    /\ \E s \in pending :
          LET file == shardEntries[s]
          IN  \/ /\ IDString(bkt.ID) # file.BucketID
                 /\ pending' = pending \ {s}
                 /\ UNCHANGED << pc, err, boltOpen, remoteVars, calls >>
              \/ /\ IDString(bkt.ID) = file.BucketID
                 /\ s \notin DOMAIN shardIDMap
                 /\ pc' = "bucket"
                 /\ UNCHANGED << err, boltOpen, pending, remoteVars, calls >>
              \/ /\ IDString(bkt.ID) = file.BucketID
                 /\ s \in DOMAIN shardIDMap
                 /\ \/ RestoreShardUnreadable /\ UNCHANGED pending
                    \/ RestoreShardRefused(file.ShardID, file) /\ UNCHANGED pending
                    \/ /\ RestoreShardDone(file.ShardID, file)
                       /\ pending' = pending \ {s}
                       /\ UNCHANGED << pc, err, boltOpen >>
    /\ UNCHANGED << inputVars, loadVars, partVars >>

\* A shard loop that passes over an unmapped shard and goes on.
RestoreBucketShardSkipUnmapped ==
    /\ pc = "bshards"
    /\ \E s \in pending :
          LET file == shardEntries[s]
          IN  \/ /\ IDString(bkt.ID) # file.BucketID
                 /\ pending' = pending \ {s}
                 /\ UNCHANGED << pc, err, boltOpen, remoteVars, calls >>
              \/ /\ IDString(bkt.ID) = file.BucketID
                 /\ s \notin DOMAIN shardIDMap
                 /\ pending' = pending \ {s}
                 /\ UNCHANGED << pc, err, boltOpen, remoteVars, calls >>
              \/ /\ IDString(bkt.ID) = file.BucketID
                 /\ s \in DOMAIN shardIDMap
                 /\ \/ RestoreShardUnreadable /\ UNCHANGED pending
                    \/ RestoreShardRefused(shardIDMap[s], file) /\ UNCHANGED pending
                    \/ /\ RestoreShardDone(shardIDMap[s], file)
                       /\ pending' = pending \ {s}
                       /\ UNCHANGED << pc, err, boltOpen >>
    /\ UNCHANGED << inputVars, loadVars, partVars >>

\* Lines 309-324: one iteration of the range over b.shardEntries, in whatever
\* order the map yields its keys.
RestoreBucketShard ==
    /\ pc = "bshards"
    /\ \E s \in pending :
          LET file == shardEntries[s]
          IN  \/ /\ IDString(bkt.ID) # file.BucketID
                 /\ pending' = pending \ {s}
                 /\ UNCHANGED << pc, err, boltOpen, remoteVars, calls >>
              \/ /\ IDString(bkt.ID) = file.BucketID
                 /\ s \notin DOMAIN shardIDMap
                 /\ pc' = "bucket"
                 /\ UNCHANGED << err, boltOpen, pending, remoteVars, calls >>
              \/ /\ IDString(bkt.ID) = file.BucketID
                 /\ s \in DOMAIN shardIDMap
                 /\ \/ RestoreShardUnreadable /\ UNCHANGED pending
                    \/ RestoreShardRefused(shardIDMap[s], file) /\ UNCHANGED pending
                    \/ /\ RestoreShardDone(shardIDMap[s], file)
                       /\ pending' = pending \ {s}
                       /\ UNCHANGED << pc, err, boltOpen >>
    /\ UNCHANGED << inputVars, loadVars, partVars >>

\* Line 326: every entry was visited.
RestoreBucketReturn ==
    /\ pc = "bshards"
    /\ pending = {}
    /\ pc' = "bucket"
    /\ UNCHANGED << inputVars, err, loadVars, boltOpen, partVars, pending, remoteVars,
                    calls >>

(***************************************************************************)
(* Initial states: a fresh cmdRestoreBuilder, its flags parsed, before     *)
(* restoreRunE runs.                                                       *)
(***************************************************************************)
\* newCmdRestoreBuilder, and the locals not yet assigned.
InitBuilder ==
    /\ err = ""
    /\ manifests = << >>
    /\ idx = 0
    /\ reads = {}
    /\ kvEntry = Nil
    /\ shardEntries = EmptyPlan
    /\ boltOpen = "unopened"
    /\ orgs = {}
    /\ curOrg = NoOrg
    /\ newOrg = NoOrg
    /\ buckets = {}
    /\ bkt = NoBucket
    /\ newBucket = NoBucket
    /\ shardIDMap = NoMap
    /\ pending = {}
    /\ calls = << >>
    /\ earlier = << >>

\* The backed-up metadata store: two organizations; bucket 1 "data" and the
\* internal bucket 3 in organization 1, bucket 2 "logs" in organization 2.
InitTenants ==
    /\ localOrgs = { [ID |-> 1, Name |-> "acme"], [ID |-> 2, Name |-> "beta"] }
    /\ localBuckets = { [ID |-> 1, OrgID |-> 1, Name |-> "data"],
                        [ID |-> 2, OrgID |-> 2, Name |-> "logs"],
                        [ID |-> 3, OrgID |-> 1, Name |-> "_tasks"] }

\* The shard catalogs the backed-up store may hold: every bucket's with all
\* its shards; bucket 1's without shard 1; no catalog for bucket 1.
Catalogs ==
    { [n \in {IDString(1), IDString(2), IDString(3)} |->
          IF n = IDString(1) THEN first ELSE IF n = IDString(2) THEN {3} ELSE {4}] :
        first \in { {1, 2}, {2} } }
    \cup { [n \in {IDString(2), IDString(3)} |-> IF n = IDString(2) THEN {3} ELSE {4}] }

FullCatalog ==
    [n \in {IDString(1), IDString(2), IDString(3)} |->
        IF n = IDString(1) THEN {1, 2} ELSE IF n = IDString(2) THEN {3} ELSE {4}]

\* The server before the run: its own metadata store, no restored shard.
InitRemote(startOrgs, startBuckets) ==
    /\ remoteKV = << "live" >>
    /\ remoteOrgs = startOrgs
    /\ remoteBuckets = startBuckets
    /\ remoteDBs = [id \in {} |-> {}]
    /\ remoteShards = [id \in {} |-> NoFile]

\* The servers a run may meet: an empty one, one that has organization "acme"
\* under another ID than the backup's, one that also has its bucket "data".
RemoteStarts ==
    { [orgs |-> {}, buckets |-> {}],
      [orgs |-> { [ID |-> 4, Name |-> "acme"] }, buckets |-> {}],
      [orgs |-> { [ID |-> 4, Name |-> "acme"] },
       buckets |-> { [ID |-> 4, OrgID |-> 4, Name |-> "data"] }] }

NoFlags ==
    /\ org = [id |-> "", name |-> ""]
    /\ bucketID = ""
    /\ bucketName = ""
    /\ newBucketName = ""
    /\ newOrgName = ""

\* The manifests of the executors' specifications: every timestamp is 1.
RunShapes(S) ==
    { f \in ManifestShapes(S, {1}) :
        \A i \in 1 .. Len(f.Files) : f.Files[i].LastModified = 1 }

\* Every file the manifests name is in the directory.
AllOnDisk == disk = Archives(dir) \cup Snapshots(dir)

(***************************************************************************)
(* The loader alone, over the shard descriptors: every directory of up to  *)
(* MaxManifests manifests over shards 1 and 2, each archive there or not.  *)
(***************************************************************************)
InitLoad ==
    /\ full = TRUE
    /\ NoFlags
    /\ dir \in Directories(ManifestNames, ManifestShapes(LoadShardIDs, {1}))
    /\ \E present \in SUBSET Archives(dir) : disk = present \cup Snapshots(dir)
    /\ InitTenants
    /\ localDBs = FullCatalog
    /\ InitRemote({}, {})
    /\ pc = "load"
    /\ InitBuilder

NextLoad == LoadGlob \/ LoadManifest \/ LoadReturn

SpecLoad == InitLoad /\ [][NextLoad]_vars

(***************************************************************************)
(* The loader alone, over the metadata snapshots: every directory of       *)
(* manifests whose snapshot is absent or modified at any time, and that    *)
(* list shard 1 or not.                                                    *)
(***************************************************************************)
InitLoadKV ==
    /\ full = TRUE
    /\ NoFlags
    /\ dir \in Directories(ManifestNames, ManifestShapes({1}, Times))
    /\ \E present \in SUBSET Archives(dir) : disk = present \cup Snapshots(dir)
    /\ InitTenants
    /\ localDBs = FullCatalog
    /\ InitRemote({}, {})
    /\ pc = "load"
    /\ InitBuilder

SpecLoadKV == InitLoadKV /\ [][NextLoad]_vars

(***************************************************************************)
(* Full restore: every directory of up to MaxManifests manifests over      *)
(* shards 1..3, against each server.                                       *)
(***************************************************************************)
InitFull ==
    /\ full = TRUE
    /\ NoFlags
    /\ dir \in Directories(ManifestNames, RunShapes({1, 2, 3}))
    /\ AllOnDisk
    /\ InitTenants
    /\ localDBs = FullCatalog
    /\ \E r \in RemoteStarts : InitRemote(r.orgs, r.buckets)
    /\ pc = "start"
    /\ InitBuilder

NextFull ==
    \/ Validate
    \/ LoadGlob
    \/ LoadManifest
    \/ LoadReturn
    \/ Dispatch
    \/ RestoreKVStore
    \/ RestoreFullShard
    \/ RestoreFullReturn

SpecFull == InitFull /\ [][NextFull]_vars

(***************************************************************************)
(* Partial restore: one manifest, each filter and rename, each catalog,    *)
(* each server.                                                            *)
(***************************************************************************)
\* The directories of the partial executor's specification: an empty one,
\* or one manifest that is unusable or lists the shards of one of four plans.
PartialDirs ==
    Directories({1}, { g \in RunShapes(ShardIDs) :
                         \/ g.kind # "file"
                         \/ g.malformed
                         \/ /\ g.KV # ZeroKV
                            /\ { g.Files[i].ShardID : i \in 1 .. Len(g.Files) }
                                   \in { {1, 2, 3, 4}, {1, 2}, {2, 3}, {} } })

InitPartial ==
    /\ full = FALSE
    /\ org \in { [id |-> "", name |-> ""], [id |-> IDString(1), name |-> ""],
                 [id |-> "", name |-> "acme"], [id |-> IDString(1), name |-> "beta"],
                 [id |-> "zz", name |-> ""], [id |-> IDString(5), name |-> ""] }
    /\ \E f \in { << "", "" >>, << IDString(1), "" >>, << "", "data" >>,
                  << IDString(1), "logs" >>, << "zz", "" >>, << "", "_tasks" >>,
                  << IDString(3), "" >> } :
          /\ bucketID = f[1]
          /\ bucketName = f[2]
    /\ newOrgName \in {"", "neworg"}
    /\ newBucketName \in {"", "newdata"}
    /\ dir \in PartialDirs
    /\ AllOnDisk
    /\ InitTenants
    /\ localDBs \in Catalogs
    /\ \E r \in RemoteStarts : InitRemote(r.orgs, r.buckets)
    /\ pc = "start"
    /\ InitBuilder

NextPartial ==
    \/ Validate
    \/ LoadGlob
    \/ LoadManifest
    \/ LoadReturn
    \/ Dispatch
    \/ OpenBolt
    \/ RestoreOrganizations
    \/ RestorePartialReturn
    \/ RestoreOrganization
    \/ ListBuckets
    \/ RestoreOrganizationReturn
    \/ SkipInternalBucket
    \/ CreateBucket
    \/ RestoreBucketCatalog
    \/ RestoreBucketShard
    \/ RestoreBucketReturn

SpecPartial == InitPartial /\ [][NextPartial]_vars

(***************************************************************************)
(* Partial restore run twice: the command is invoked a second time with    *)
(* the same flags and backup against the server the first run left.        *)
(***************************************************************************)
\* cmdRestore: a second invocation starts from a fresh cmdRestoreBuilder.
Rerun ==
    /\ pc = "done"
    /\ earlier = << >>
    /\ earlier' = Append(earlier, calls)
    /\ pc' = "start"
    /\ err' = ""
    /\ manifests' = << >>
    /\ idx' = 0
    /\ reads' = {}
    /\ kvEntry' = Nil
    /\ shardEntries' = EmptyPlan
    /\ boltOpen' = "unopened"
    /\ orgs' = {}
    /\ curOrg' = NoOrg
    /\ newOrg' = NoOrg
    /\ buckets' = {}
    /\ bkt' = NoBucket
    /\ newBucket' = NoBucket
    /\ shardIDMap' = NoMap
    /\ pending' = {}
    /\ calls' = << >>
    /\ UNCHANGED << flagVars, pathVars, snapVars, remoteVars >>

InitTwice ==
    /\ full = FALSE
    /\ org \in { [id |-> "", name |-> ""], [id |-> "", name |-> "acme"],
                 [id |-> IDString(2), name |-> ""] }
    /\ bucketID = ""
    /\ bucketName = ""
    /\ newOrgName \in {"", "neworg"}
    /\ newBucketName = ""
    /\ dir \in Directories({1}, { g \in RunShapes({1, 2, 3}) :
                                     g.kind = "file" /\ ~g.malformed /\ g.KV # ZeroKV })
    /\ AllOnDisk
    /\ InitTenants
    /\ localDBs \in Catalogs
    /\ \E r \in RemoteStarts : InitRemote(r.orgs, r.buckets)
    /\ pc = "start"
    /\ InitBuilder

NextTwice == NextPartial \/ Rerun

SpecTwice == InitTwice /\ [][NextTwice]_vars

(***************************************************************************)
(* Partial restore run twice against the same server: the second           *)
(* invocation, with the same flags and backup, meets a server in the state *)
(* the first one met.                                                      *)
(***************************************************************************)
\* cmdRestore: after a run that ended with success, a second invocation
\* starts from a fresh cmdRestoreBuilder against a fresh, empty server.
Replay ==
    /\ pc = "done"
    /\ err = ""
    /\ earlier = << >>
    /\ earlier' = Append(earlier, calls)
    /\ pc' = "start"
    /\ manifests' = << >>
    /\ idx' = 0
    /\ reads' = {}
    /\ kvEntry' = Nil
    /\ shardEntries' = EmptyPlan
    /\ boltOpen' = "unopened"
    /\ orgs' = {}
    /\ curOrg' = NoOrg
    /\ newOrg' = NoOrg
    /\ buckets' = {}
    /\ bkt' = NoBucket
    /\ newBucket' = NoBucket
    /\ shardIDMap' = NoMap
    /\ pending' = {}
    /\ calls' = << >>
    /\ remoteKV' = << "live" >>
    /\ remoteOrgs' = {}
    /\ remoteBuckets' = {}
    /\ remoteDBs' = [id \in {} |-> {}]
    /\ remoteShards' = [id \in {} |-> NoFile]
    /\ UNCHANGED << flagVars, pathVars, snapVars, err >>

InitAgain ==
    /\ full = FALSE
    /\ org \in { [id |-> "", name |-> ""], [id |-> "", name |-> "acme"] }
    /\ bucketID \in {"", IDString(1)}
    /\ bucketName = ""
    /\ newOrgName = ""
    /\ newBucketName = ""
    /\ dir \in Directories({1}, { g \in RunShapes({1, 2, 3}) :
                                     g.kind = "file" /\ ~g.malformed /\ g.KV # ZeroKV })
    /\ AllOnDisk
    /\ InitTenants
    /\ localDBs \in Catalogs
    /\ InitRemote({}, {})
    /\ pc = "start"
    /\ InitBuilder

NextAgain == NextPartial \/ Replay

SpecAgain == InitAgain /\ [][NextAgain]_vars

(***************************************************************************)
(* The command: every combination of the flags, in either mode.            *)
(***************************************************************************)
\* The directories of the command's specification: an empty one, or one
\* manifest that is unusable or lists shards 1..4 with or without a snapshot.
CommandDirs ==
    Directories({1}, { g \in RunShapes(ShardIDs) :
                         \/ g.kind # "file"
                         \/ g.malformed
                         \/ Len(g.Files) = Cardinality(ShardIDs) })

Init ==
    /\ full \in BOOLEAN
    /\ org \in [id : {"", IDString(1), "zz"}, name : {"", "acme"}]
    /\ bucketID \in {"", IDString(1), "zz"}
    /\ bucketName \in {"", "data"}
    /\ newOrgName \in {"", "neworg"}
    /\ newBucketName \in {"", "newdata"}
    /\ dir \in CommandDirs
    /\ AllOnDisk
    /\ InitTenants
    /\ localDBs \in Catalogs
    /\ \E r \in RemoteStarts : InitRemote(r.orgs, r.buckets)
    /\ pc = "start"
    /\ InitBuilder

Next ==
    \/ Validate
    \/ LoadGlob
    \/ LoadManifest
    \/ LoadReturn
    \/ Dispatch
    \/ RestoreKVStore
    \/ RestoreFullShard
    \/ RestoreFullReturn
    \/ OpenBolt
    \/ RestoreOrganizations
    \/ RestorePartialReturn
    \/ RestoreOrganization
    \/ ListBuckets
    \/ RestoreOrganizationReturn
    \/ SkipInternalBucket
    \/ CreateBucket
    \/ RestoreBucketCatalog
    \/ RestoreBucketShard
    \/ RestoreBucketReturn

Spec == Init /\ [][Next]_vars

(***************************************************************************)
(* The command without filters, in either mode, over every directory of up *)
(* to MaxManifests manifests that list shard 1 of bucket "data" and shard  *)
(* 3 of bucket "logs" or not.                                              *)
(***************************************************************************)
InitRun ==
    /\ full \in BOOLEAN
    /\ NoFlags
    /\ dir \in Directories(ManifestNames, RunShapes({1, 3}))
    /\ AllOnDisk
    /\ InitTenants
    /\ localDBs \in Catalogs
    /\ \E r \in RemoteStarts : InitRemote(r.orgs, r.buckets)
    /\ pc = "start"
    /\ InitBuilder

SpecRun == InitRun /\ [][Next]_vars

(***************************************************************************)
(* The loader's properties.                                                *)
(***************************************************************************)
\* loadIncremental has returned nil.
LoadOK == pc = "loaded" /\ err = ""

\* The manifests of the directory that are regular files.
RegularManifests == { m \in DOMAIN dir : dir[m].kind = "file" }

\* Every shard descriptor of the directory's manifests, with its manifest.
Descriptors ==
    UNION { { [manifest |-> m, entry |-> dir[m].Files[i]] : i \in 1 .. Len(dir[m].Files) } :
            m \in RegularManifests }

DescriptorsOf(s) == { x \in Descriptors : x.entry.ShardID = s }

\* The descriptors of shard s carry pairwise differing timestamps.
Differing(s) ==
    \A x, y \in DescriptorsOf(s) :
        x # y => x.entry.LastModified # y.entry.LastModified

Greatest(S) == CHOOSE x \in S : \A y \in S : y <= x

\* C1 as stated: after loadIncremental the plan's entry for a shard ID whose
\* descriptors carry differing timestamps is the descriptor with the greatest
\* last-modified timestamp of all the manifests' descriptors for that ID.
C1_MergeGreatestOfAll ==
    LoadOK =>
        \A s \in ShardIDs :
            (DescriptorsOf(s) # {} /\ Differing(s)) =>
                /\ s \in DOMAIN shardEntries
                /\ \A x \in DescriptorsOf(s) :
                       x.entry.LastModified <= shardEntries[s].LastModified

\* C1 amended: after loadIncremental the plan's entry for a shard ID whose
\* descriptors carry differing timestamps is, among the descriptors of that ID
\* whose archive file exists in the backup directory, the one with the
\* greatest last-modified timestamp, whichever manifest holds it; the plan has
\* no entry for the ID when no such file exists.
C1_MergeGreatestExisting ==
    LoadOK =>
        \A s \in ShardIDs :
            (DescriptorsOf(s) # {} /\ Differing(s)) =>
                LET live == { x \in DescriptorsOf(s) : x.entry.FileName \in disk }
                IN  IF live = {} THEN s \notin DOMAIN shardEntries
                    ELSE /\ s \in DOMAIN shardEntries
                         /\ \E x \in live : shardEntries[s] = x.entry
                         /\ \A x \in live :
                               x.entry.LastModified <= shardEntries[s].LastModified

\* A load in which the manifest read last holds the later descriptor of a
\* shard and the plan took it.
C1_Witness ==
    /\ LoadOK
    /\ \E s \in ShardIDs : \E x, y \in DescriptorsOf(s) :
          /\ x.manifest < y.manifest
          /\ x.entry.LastModified > y.entry.LastModified
          /\ x.entry.FileName \in disk
          /\ y.entry.FileName \in disk
          /\ shardEntries[s] = x.entry

\* C2: manifests are read in descending filename order, the KV entry selected
\* is that of the first manifest read and is never replaced; so of two
\* manifests that both hold a metadata snapshot, the greater filename's is
\* selected, whatever the snapshots' last-modified timestamps.
C2_KVSelection ==
    /\ \A r \in reads : \A m \in RegularManifests : m > r => m \in reads
    /\ kvEntry # Nil => reads # {} /\ kvEntry = dir[Greatest(reads)].KV
    /\ LoadOK =>
          \A m1, m2 \in RegularManifests :
             ( /\ m1 > m2
               /\ dir[m1].KV # ZeroKV
               /\ dir[m2].KV # ZeroKV
               /\ m1 = Greatest(RegularManifests) ) => kvEntry = dir[m1].KV

\* The older manifest's snapshot is the later modified one, and the newer
\* manifest's snapshot is selected.
C2_Witness ==
    /\ LoadOK
    /\ \E m1, m2 \in RegularManifests :
          /\ m1 > m2
          /\ dir[m1].KV # ZeroKV
          /\ dir[m2].KV # ZeroKV
          /\ dir[m2].KV.LastModified > dir[m1].KV.LastModified
          /\ kvEntry = dir[m1].KV

\* C3 as stated: the selected KV entry is that of the first manifest, in
\* descending filename order, whose metadata snapshot exists.
C3_FirstExistingSnapshot ==
    LoadOK =>
        LET holders == { m \in RegularManifests : dir[m].KV.FileName \in disk }
        IN  holders # {} => kvEntry = dir[Greatest(holders)].KV

\* loadIncremental of lines 348-395 as a function of the directory: the plan
\* it leaves when every manifest is a well-formed regular file.
RECURSIVE PlanOf(_, _, _, _)
PlanOf(d, names, entries, dk) ==
    IF names = << >> THEN entries
    ELSE PlanOf(d, Tail(names),
                IF d[Head(names)].kind = "file"
                THEN MergeFiles(entries, d[Head(names)].Files, dk)
                ELSE entries,
                dk)

\* Directory d without the descriptors whose archive file is not in dk.
Present(d, dk) ==
    [m \in DOMAIN d |->
        [d[m] EXCEPT !.Files = SelectSeq(d[m].Files, LAMBDA e : e.FileName \in dk)]]

\* C4: a descriptor whose archive file is missing is not in the plan, and the
\* plan is the one the same manifests give with those descriptors removed.
C4_MissingFileExclusion ==
    LoadOK =>
        /\ \A s \in DOMAIN shardEntries : shardEntries[s].FileName \in disk
        /\ shardEntries =
              PlanOf(Present(dir, disk), SortDescending(DOMAIN dir), EmptyPlan,
                     Archives(dir))

\* The newer descriptor of a shard has no file, and the older one is kept.
C4_Witness ==
    /\ LoadOK
    /\ \E s \in ShardIDs : \E x, y \in DescriptorsOf(s) :
          /\ x.entry.LastModified > y.entry.LastModified
          /\ x.entry.FileName \notin disk
          /\ y.entry.FileName \in disk
          /\ shardEntries[s] = y.entry

(***************************************************************************)
(* The orchestrator's and the executors' properties.                       *)
(***************************************************************************)
\* The positions in calls of the calls to one endpoint.
Made(op) == { j \in 1 .. Len(calls) : calls[j].op = op }

\* The run ended with success.
Succeeded == pc = "done" /\ err = ""

\* The plan's entry of shard s was delivered to the server.
Transferred(s) ==
    \E j \in Made("RestoreShard") :
        calls[j].ok /\ calls[j].file = shardEntries[s].FileName

\* C5: a run given a new organization name with neither organization filter,
\* or a new bucket name with neither bucket filter, ends with a configuration
\* error before any manifest is listed or read and before any remote call.
C5_RenamePrecondition ==
    ( /\ \/ newOrgName # "" /\ org.id = "" /\ org.name = ""
         \/ newBucketName # "" /\ bucketID = "" /\ bucketName = ""
      /\ pc # "start" ) =>
        /\ pc = "done"
        /\ err \in { "must specify source org id or name when renaming restored org",
                     "must specify source bucket id or name when renaming restored bucket" }
        /\ manifests = << >>
        /\ reads = {}
        /\ kvEntry = Nil
        /\ boltOpen = "unopened"
        /\ calls = << >>

\* A run with a new bucket name and no bucket filter has ended.
C5_Witness ==
    /\ pc = "done"
    /\ newOrgName = ""
    /\ newBucketName # ""
    /\ bucketID = ""
    /\ bucketName = ""
    /\ err = "must specify source bucket id or name when renaming restored bucket"

\* C6: in full restore every shard transfer comes after the successful
\* replacement of the metadata store; when the snapshot cannot be opened or
\* the replacement fails, the run ends with an error and no shard transfer is
\* made.
C6_MetadataBeforeShards ==
    full =>
        /\ \A j \in Made("RestoreShard") :
              \E k \in Made("RestoreKVStore") : k < j /\ calls[k].ok
        /\ ( \/ err \in {"cannot open metadata snapshot", "restore metadata failed"}
             \/ \E k \in Made("RestoreKVStore") : ~calls[k].ok ) =>
              /\ pc = "done"
              /\ err # ""
              /\ Made("RestoreShard") = {}
              /\ DOMAIN remoteShards = {}

\* The replacement failed with shards in the plan, and none was transferred.
C6_Witness ==
    /\ full
    /\ pc = "done"
    /\ err = "restore metadata failed"
    /\ DOMAIN shardEntries # {}
    /\ Made("RestoreShard") = {}

\* C7: in full restore every shard transfer is made under the shard ID of
\* the plan entry it carries, and a run that ends with success has delivered
\* every entry of the plan, in whatever order the plan was ranged over.
C7_FullTransfersEveryShard ==
    full =>
        /\ \A j \in Made("RestoreShard") :
              /\ calls[j].id \in DOMAIN shardEntries
              /\ calls[j].file = shardEntries[calls[j].id].FileName
        /\ Succeeded =>
              \A s \in DOMAIN shardEntries :
                  /\ Transferred(s)
                  /\ s \in DOMAIN remoteShards
                  /\ remoteShards[s] = shardEntries[s].FileName

\* A full restore succeeded having transferred a shard before one of a
\* smaller ID.
C7_Witness ==
    /\ full
    /\ Succeeded
    /\ \E j, k \in Made("RestoreShard") : j < k /\ calls[j].id > calls[k].id

\* C8: in full restore a shard transfer that fails ends the run with an
\* error; it is the last call made, and the metadata store and the shards
\* delivered before it are still on the server.
C8_ShardFailureAborts ==
    full =>
        /\ \A j \in Made("RestoreShard") :
              ~calls[j].ok => j = Len(calls) /\ pc = "done" /\ err = "restore shard failed"
        /\ err \in {"cannot read shard archive", "restore shard failed"} =>
              /\ pc = "done"
              /\ remoteKV = kvEntry.FileName
              /\ \A j \in Made("RestoreShard") :
                    calls[j].ok =>
                        /\ calls[j].id \in DOMAIN remoteShards
                        /\ remoteShards[calls[j].id] = calls[j].file

\* A transfer failed after another shard was delivered and before a third
\* was tried.
C8_Witness ==
    /\ full
    /\ pc = "done"
    /\ err = "restore shard failed"
    /\ \E j \in Made("RestoreShard") : calls[j].ok
    /\ Cardinality(pending) >= 2

\* The backup-time IDs, as the manifests spell them, of the buckets whose
\* shard catalog was restored in this run.
RestoredBuckets == { IDString(calls[j].from) : j \in { k \in Made("RestoreBucket") : calls[k].ok } }

\* C9 as stated: when a run ends with success, every entry of the plan (full
\* mode), or every entry of the plan that belongs to a bucket restored in the
\* run (partial mode), has been transferred to the server.
C9_NoSilentDataLoss ==
    Succeeded =>
        \A s \in DOMAIN shardEntries :
            (full \/ shardEntries[s].BucketID \in RestoredBuckets) => Transferred(s)

\* C10: a partial restore never calls the replace-metadata-store endpoint,
\* leaves the backup directory and the local copy of the metadata store as
\* they are, keeps every organization and bucket the server has, and changes
\* the server only by a successful organization creation, bucket creation,
\* shard-catalog creation or shard transfer.
C10_PartialIsAdditive ==
    /\ [](~full =>
            /\ Made("RestoreKVStore") = {}
            /\ remoteKV = << "live" >>)
    /\ [][~full =>
            /\ remoteOrgs \subseteq remoteOrgs'
            /\ remoteBuckets \subseteq remoteBuckets'
            /\ << dir, disk, localOrgs, localBuckets, localDBs >>' =
                  << dir, disk, localOrgs, localBuckets, localDBs >>
            /\ remoteVars' # remoteVars =>
                  /\ Len(calls') > Len(calls)
                  /\ calls'[Len(calls')].ok
                  /\ remoteOrgs' # remoteOrgs => calls'[Len(calls')].op = "CreateOrganization"
                  /\ remoteBuckets' # remoteBuckets => calls'[Len(calls')].op = "CreateBucket"
                  /\ remoteDBs' # remoteDBs => calls'[Len(calls')].op = "RestoreBucket"
                  /\ remoteShards' # remoteShards => calls'[Len(calls')].op = "RestoreShard"
       ]_vars

\* A partial restore succeeded on a server that had organization "acme" and
\* its bucket "data": it created a bucket beside it and delivered a shard.
C10_Witness ==
    /\ ~full
    /\ Succeeded
    /\ [ID |-> 4, Name |-> "acme"] \in remoteOrgs
    /\ [ID |-> 4, OrgID |-> 4, Name |-> "data"] \in remoteBuckets
    /\ \E j \in Made("CreateBucket") : calls[j].ok /\ calls[j].org = 4
    /\ \E j \in Made("RestoreShard") : calls[j].ok

(***************************************************************************)
(* The partial executor's properties.                                      *)
(***************************************************************************)
\* The last remote call made.
LastCall == calls[Len(calls)]

\* The step makes one more remote call, to endpoint op.
Calls(op) == Len(calls') = Len(calls) + 1 /\ calls'[Len(calls')].op = op

\* C11: in partial restore a bucket creation under a name the target
\* organization already has on the server fails; a failed bucket creation
\* ends the run with an error, leaves the server's buckets as they are, and
\* is the last remote call of the run, so no shard catalog is restored and
\* no shard is transferred for that bucket or for any bucket after it.
C11_NoOverwrite ==
    /\ [][(~full /\ Calls("CreateBucket")) =>
            LET c == calls'[Len(calls')]
            IN  /\ (\E r \in remoteBuckets : r.OrgID = c.org /\ r.Name = c.name) => ~c.ok
                /\ ~c.ok => /\ pc' = "done"
                            /\ err' = "cannot create bucket"
                            /\ remoteVars' = remoteVars]_vars
    /\ [](~full =>
            \A j \in Made("CreateBucket") :
                ~calls[j].ok => /\ j = Len(calls)
                                /\ pc = "done"
                                /\ err = "cannot create bucket")

\* The server had bucket "data" in organization "acme"; restoring both
\* organizations, the creation of "data" failed before bucket "logs" of the
\* other organization was reached.
C11_Witness ==
    /\ ~full
    /\ pc = "done"
    /\ err = "cannot create bucket"
    /\ LastCall.op = "CreateBucket"
    /\ LastCall.name = "data"
    /\ LastCall.org = 4
    /\ [ID |-> 4, OrgID |-> 4, Name |-> "data"] \in remoteBuckets
    /\ orgs # {}
    /\ Made("RestoreBucket") = {}
    /\ Made("RestoreShard") = {}

\* The backup-time IDs of the internal buckets of the local copy.
InternalBuckets == { b.ID : b \in { x \in localBuckets : IsInternal(x.Name) } }

\* C12: in partial restore no bucket of the backup whose name starts with
\* "_" is created on the server, has its shard catalog restored, or has one
\* of its shards transferred, whatever the bucket filter is.
C12_InternalBucketExclusion ==
    ~full =>
        /\ \A j \in Made("CreateBucket") \cup Made("RestoreBucket") :
              calls[j].from \notin InternalBuckets
        /\ \A j \in Made("RestoreShard") :
              \A i \in InternalBuckets :
                  shardEntries[calls[j].from].BucketID # IDString(i)
        /\ bkt.ID \notin InternalBuckets

\* A partial restore filtered on the ID of the internal bucket, whose shard
\* is in the plan, succeeded without creating or restoring anything for it.
C12_Witness ==
    /\ ~full
    /\ Succeeded
    /\ bucketID = IDString(3)
    /\ 4 \in DOMAIN shardEntries
    /\ Made("FindOrganization") # {}
    /\ Made("CreateBucket") = {}
    /\ Made("RestoreShard") = {}

\* The successful organization creations of the first run.
CreatedEarlier ==
    IF earlier = << >> THEN {}
    ELSE { earlier[1][j] : j \in { k \in 1 .. Len(earlier[1]) :
                                      /\ earlier[1][k].op = "CreateOrganization"
                                      /\ earlier[1][k].ok } }

\* C13: when partial restore is run twice against the same server with the
\* same target organization name, the server holds exactly one organization
\* of a name the first run created; the first run created it after a lookup
\* that found nothing; the second run makes no CreateOrganization call for
\* that name, and when its lookup answers, the target ID is the ID the first
\* run created.
C13_OrganizationReuse ==
    /\ [](\A c \in CreatedEarlier :
            /\ Cardinality({ r \in remoteOrgs : r.Name = c.name }) = 1
            /\ [ID |-> c.id, Name |-> c.name] \in remoteOrgs
            /\ \A j \in Made("CreateOrganization") : calls[j].name # c.name
            /\ \E k \in 2 .. Len(earlier[1]) :
                  /\ earlier[1][k] = c
                  /\ earlier[1][k - 1].op = "FindOrganization"
                  /\ earlier[1][k - 1].name = c.name
                  /\ ~earlier[1][k - 1].ok)
    /\ [][\A c \in CreatedEarlier :
            ( /\ Calls("FindOrganization")
              /\ calls'[Len(calls')].name = c.name
              /\ pc' # "done" ) =>
                /\ calls'[Len(calls')].ok
                /\ newOrg' = [ID |-> c.id, Name |-> c.name]]_vars

\* The first run created organization "neworg" on a server that had none of
\* that name; the second run found it and went on to its buckets under the
\* ID the first run was given.
C13_Witness ==
    /\ Len(earlier) = 1
    /\ newOrgName = "neworg"
    /\ \E c \in CreatedEarlier : c.name = "neworg" /\ newOrg = [ID |-> c.id, Name |-> "neworg"]
    /\ Made("FindOrganization") # {}
    /\ Made("CreateOrganization") = {}
    /\ pc = "buckets"

\* The successful shard-catalog restores made before call j.
CatalogsBefore(j) == { k \in Made("RestoreBucket") : k < j /\ calls[k].ok }

\* The greatest member of a set of call positions.
Latest(S) == CHOOSE k \in S : \A i \in S : i <= k

\* C14: in partial restore every shard transfer comes after the shard
\* catalog of the shard's own bucket was restored, with no other catalog
\* restored in between, and goes under the ID that catalog restore returned
\* for the shard: never under the backup-time shard ID, never under an ID of
\* another bucket's catalog.
C14_SafeShardRemapping ==
    ~full =>
        \A j \in Made("RestoreShard") :
            /\ CatalogsBefore(j) # {}
            /\ LET k == Latest(CatalogsBefore(j))
                   n == Cardinality(CatalogsBefore(j))
               IN  /\ shardEntries[calls[j].from].BucketID = IDString(calls[k].from)
                   /\ calls[j].id = RemoteShardID(n, calls[j].from)
                   /\ calls[j].id # calls[j].from
                   /\ calls[k].id \in DOMAIN remoteDBs
                   /\ calls[j].id \in remoteDBs[calls[k].id]
                   /\ \A other \in DOMAIN remoteDBs \ {calls[k].id} :
                         calls[j].id \notin remoteDBs[other]

\* Two buckets were restored in one run and a shard of each was transferred
\* under the ID of its own bucket's catalog.
C14_Witness ==
    /\ ~full
    /\ Succeeded
    /\ \E j, k \in Made("RestoreShard") :
          /\ j < k
          /\ calls[j].ok
          /\ calls[k].ok
          /\ calls[j].id = RemoteShardID(1, calls[j].from)
          /\ calls[k].id = RemoteShardID(2, calls[k].from)

\* Organization o of the backup is selected by --org-id / --org: the ID
\* filter, when given, is the only one used.
OrgSelected(o) ==
    IF org.id # "" THEN IDString(o.ID) = org.id
    ELSE org.name # "" => o.Name = org.name

\* Bucket b of the backup is selected by --bucket-id / --bucket within a
\* selected organization.
BucketSelected(b) ==
    /\ \E o \in localOrgs : o.ID = b.OrgID /\ OrgSelected(o)
    /\ IF bucketID # "" THEN IDString(b.ID) = bucketID
       ELSE bucketName # "" => b.Name = bucketName

\* C15: in partial restore a shard transfer is made only for an entry of the
\* plan whose bucket ID is the backup-time ID of a bucket the filters
\* select, whose name does not start with "_", and that was created on the
\* server earlier in the run.
C15_OnlyShardsOfRestoredBuckets ==
    ~full =>
        \A j \in Made("RestoreShard") :
            /\ calls[j].from \in DOMAIN shardEntries
            /\ calls[j].file = shardEntries[calls[j].from].FileName
            /\ \E b \in localBuckets :
                  /\ IDString(b.ID) = shardEntries[calls[j].from].BucketID
                  /\ BucketSelected(b)
                  /\ b.Name \notin {"_tasks", "_monitoring"}
                  /\ \E k \in Made("CreateBucket") :
                        k < j /\ calls[k].ok /\ calls[k].from = b.ID

\* With --bucket data and a plan that also holds the shards of the other
\* buckets, the run succeeded having transferred the two shards of "data".
C15_Witness ==
    /\ ~full
    /\ Succeeded
    /\ bucketID = ""
    /\ bucketName = "data"
    /\ org.id = ""
    /\ org.name = ""
    /\ DOMAIN shardEntries = {1, 2, 3, 4}
    /\ { calls[j].from : j \in Made("RestoreShard") } = {1, 2}

\* Entry s of the plan belongs to the bucket whose shards are being restored.
OfCurrentBucket(s) == shardEntries[s].BucketID = IDString(bkt.ID)

C17_NoDuplication ==
    /\ \A s \in DOMAIN shardEntries : shardEntries[s].ShardID = s
    /\ \A s, t \in DOMAIN shardEntries :
          shardEntries[s].FileName = shardEntries[t].FileName => s = t
    /\ \A j \in Made("RestoreShard") :
          /\ calls[j].from \in DOMAIN shardEntries
          /\ calls[j].file = shardEntries[calls[j].from].FileName
    /\ \A j, k \in Made("RestoreShard") :
          ( calls[j].from = calls[k].from \/ calls[j].file = calls[k].file ) => j = k

\* Two manifests both list shards 1 and 3; a partial restore succeeded
\* having made exactly one transfer for each.
C17_Witness ==
    /\ ~full
    /\ Succeeded
    /\ Cardinality(DescriptorsOf(1)) = 2
    /\ Cardinality(DescriptorsOf(3)) = 2
    /\ Cardinality(Made("RestoreShard")) = 2
    /\ Transferred(1)
    /\ Transferred(3)

\* The backup directory holds no manifest file: nothing matches *.manifest,
\* or only directories do.
NoManifestFile == \A m \in DOMAIN dir : dir[m].kind = "dir"

\* The flags pass the rename check of restoreRunE.
FlagsValid ==
    /\ ~RenameWithoutFilter(newOrgName, org.id, org.name)
    /\ ~RenameWithoutFilter(newBucketName, bucketID, bucketName)

\* C18: when the backup directory holds no manifest file, loadIncremental
\* returns without error leaving the plan empty and no KV entry selected,
\* and the run ends with "no manifest files found" without going on to
\* build a client, open the local store or make a remote call.
C18_NoManifestFound ==
    NoManifestFile =>
        /\ pc \in {"start", "load", "manifest", "loaded", "done"}
        /\ pc = "loaded" => err = "" /\ kvEntry = Nil /\ shardEntries = EmptyPlan
        /\ ( pc = "done" /\ FlagsValid ) => err = "no manifest files found"
        /\ reads = {}
        /\ boltOpen = "unopened"
        /\ calls = << >>
        /\ remoteKV = << "live" >>
        /\ DOMAIN remoteDBs = {}
        /\ DOMAIN remoteShards = {}

\* A run on an empty directory has ended with the error.
C18_Witness ==
    /\ DOMAIN dir = {}
    /\ FlagsValid
    /\ pc = "done"
    /\ err = "no manifest files found"
    /\ kvEntry = Nil
    /\ shardEntries = EmptyPlan

\* A manifest file of the backup directory is no manifest document.
HasMalformed == \E m \in DOMAIN dir : dir[m].kind = "file" /\ dir[m].malformed

\* C19: when a manifest file of the backup directory has malformed content,
\* wherever its name falls in the order and whatever the other manifests
\* are, loadIncremental never returns nil: the run ends with the
\* manifest-processing error, and no client is built, the local store is not
\* opened and no remote call is made.
C19_MalformedManifestAborts ==
    HasMalformed =>
        /\ pc \in {"start", "load", "manifest", "done"}
        /\ pc = "done" => err = "restore failed while processing manifest files"
        /\ boltOpen = "unopened"
        /\ calls = << >>
        /\ remoteKV = << "live" >>
        /\ DOMAIN remoteDBs = {}
        /\ DOMAIN remoteShards = {}

\* The manifest of the smaller name is malformed and the one of the greater
\* name is a valid manifest with a snapshot and a shard: the valid one was
\* read and merged first, then the run ended with the error.
C19_Witness ==
    /\ DOMAIN dir = {1, 2}
    /\ dir[1].kind = "file"
    /\ dir[1].malformed
    /\ dir[2].kind = "file"
    /\ ~dir[2].malformed
    /\ dir[2].KV # ZeroKV
    /\ reads = {1, 2}
    /\ kvEntry = dir[2].KV
    /\ DOMAIN shardEntries # {}
    /\ pc = "done"
    /\ err = "restore failed while processing manifest files"

\* The error a run ends with when a call to endpoint op fails.
FailureOf(op) ==
    CASE op = "FindOrganization" -> "cannot find existing organization"
      [] op = "CreateOrganization" -> "cannot create organization"
      [] op = "CreateBucket" -> "cannot create bucket"
      [] op = "RestoreBucket" -> "cannot restore bucket"
      [] op = "RestoreShard" -> "restore shard failed"
      [] OTHER -> "restore metadata failed"

\* Call j is an organization lookup that reported not-found: the creation
\* of that organization follows it.
NotFound(j) ==
    /\ calls[j].op = "FindOrganization"
    /\ j < Len(calls)
    /\ calls[j + 1].op = "CreateOrganization"
    /\ calls[j + 1].name = calls[j].name

\* What call j created is on the server.
Kept(j) ==
    CASE calls[j].op = "CreateOrganization" ->
             [ID |-> calls[j].id, Name |-> calls[j].name] \in remoteOrgs
      [] calls[j].op = "CreateBucket" ->
             [ID |-> calls[j].id, OrgID |-> calls[j].org, Name |-> calls[j].name]
                 \in remoteBuckets
      [] calls[j].op = "RestoreBucket" -> calls[j].id \in DOMAIN remoteDBs
      [] calls[j].op = "RestoreShard" ->
             /\ calls[j].id \in DOMAIN remoteShards
             /\ remoteShards[calls[j].id] = calls[j].file
      [] OTHER -> TRUE

\* C20: in partial restore a remote call that fails, other than an
\* organization lookup reporting not-found, is the last remote call of the
\* run, which has ended with that call's error; a bucket whose shard catalog
\* is missing from the local copy ends the run with an error and without a
\* call; and whatever the successful calls created stays on the server.
C20_PartialFailureIsFatal ==
    /\ [](~full =>
            \A j \in 1 .. Len(calls) :
                /\ ( ~calls[j].ok /\ ~NotFound(j) ) =>
                      /\ j = Len(calls)
                      /\ pc = "done"
                      /\ err = FailureOf(calls[j].op)
                /\ calls[j].ok => Kept(j))
    /\ [][( ~full /\ pc = "catalog" /\ IDString(bkt.ID) \notin DOMAIN localDBs ) =>
            /\ pc' = "done"
            /\ err' = "bucket database not found"
            /\ calls' = calls
            /\ remoteVars' = remoteVars]_vars

\* The shard-catalog restore of a bucket failed after its organization and
\* the bucket were created, with another organization still to restore: the
\* run ended there and both are still on the server.
C20_Witness ==
    /\ ~full
    /\ pc = "done"
    /\ err = "cannot restore bucket"
    /\ LastCall.op = "RestoreBucket"
    /\ ~LastCall.ok
    /\ \E j \in Made("CreateOrganization") : calls[j].ok
    /\ \E j \in Made("CreateBucket") : calls[j].ok
    /\ orgs # {}

\* The positions of restorePartial after boltClient.Open succeeded.
InsidePartial == {"orgs", "org", "buckets", "bucket", "catalog", "bshards"}

\* The errors restorePartial returns after boltClient.Open succeeded.
ErrorsAfterOpen ==
    { "cannot open meta client", "invalid organization id", "cannot find organizations",
      "cannot find existing organization", "cannot create organization",
      "invalid bucket id", "cannot find buckets", "cannot create bucket",
      "bucket database not found", "cannot marshal database info",
      "cannot restore bucket", "cannot read shard archive", "restore shard failed" }

\* C21: the handle on the local metadata store is open only while
\* restorePartial is running; when a partial restore has ended, in success
\* or in an error of any step after the handle was opened, the handle is
\* closed, and it is never open once the run has ended.
C21_HandleClosedOnEveryExit ==
    ~full =>
        /\ boltOpen = "open" <=> pc \in InsidePartial
        /\ pc = "done" =>
              /\ boltOpen # "open"
              /\ ( err = "" \/ err \in ErrorsAfterOpen \/ calls # << >> ) =>
                    boltOpen = "closed"

\* A partial restore ended in the middle of a bucket, on a failed shard
\* transfer, and the handle is closed.
C21_Witness ==
    /\ ~full
    /\ pc = "done"
    /\ err = "restore shard failed"
    /\ pending # {}
    /\ boltOpen = "closed"

\* C22: in partial restore every shard-catalog restore directly follows the
\* successful creation of the same bucket, is keyed by the ID that creation
\* returned, and carries the catalog the local copy holds under the
\* bucket's backup-time ID; every shard transfer follows the successful
\* catalog restore of the shard's bucket, with only transfers of that bucket
\* in between.
C22_BucketCallOrder ==
    ~full =>
        /\ \A k \in Made("RestoreBucket") :
              /\ k > 1
              /\ calls[k - 1].op = "CreateBucket"
              /\ calls[k - 1].ok
              /\ calls[k - 1].from = calls[k].from
              /\ calls[k - 1].id = calls[k].id
              /\ IDString(calls[k].from) \in DOMAIN localDBs
              /\ calls[k].ok =>
                    /\ calls[k].id \in DOMAIN remoteDBs
                    /\ Cardinality(remoteDBs[calls[k].id]) =
                          Cardinality(localDBs[IDString(calls[k].from)])
        /\ \A j \in Made("RestoreShard") :
              \E k \in Made("RestoreBucket") :
                  /\ k < j
                  /\ calls[k].ok
                  /\ IDString(calls[k].from) = shardEntries[calls[j].from].BucketID
                  /\ \A i \in (k + 1) .. (j - 1) : calls[i].op = "RestoreShard"

\* A bucket was created under a new ID, its catalog restored under that ID,
\* and two of its shards transferred after that.
C22_Witness ==
    /\ ~full
    /\ \E k \in Made("RestoreBucket") :
          /\ calls[k].ok
          /\ calls[k].id # calls[k].from
          /\ k + 2 <= Len(calls)
          /\ calls[k + 1].op = "RestoreShard"
          /\ calls[k + 2].op = "RestoreShard"
          /\ calls[k + 2].ok

\* Bucket b of the backup passes --bucket-id / --bucket.
BucketMatches(b) ==
    IF bucketID # "" THEN IDString(b.ID) = bucketID
    ELSE bucketName # "" => b.Name = bucketName

\* The name organization o of the backup is restored under.
TargetName(o) == IF newOrgName # "" THEN newOrgName ELSE o.Name

\* C23: in partial restore the buckets listed for an organization are
\* exactly the buckets of the backup owned by the organization's backup-time
\* ID that pass the bucket filter; every bucket creation is of such a bucket
\* and carries the ID the server has for the target organization; and a run
\* that succeeds has created every selected bucket that is not internal.
C23_BucketsOfBackupOrgIntoTargetOrg ==
    /\ [][( ~full /\ pc = "buckets" /\ pc' = "bucket" ) =>
            buckets' = { b \in localBuckets : b.OrgID = curOrg.ID /\ BucketMatches(b) }
       ]_vars
    /\ [](~full =>
            \A j \in Made("CreateBucket") :
                \E b \in localBuckets, o \in localOrgs :
                    /\ b.ID = calls[j].from
                    /\ o.ID = b.OrgID
                    /\ BucketSelected(b)
                    /\ [ID |-> calls[j].org, Name |-> TargetName(o)] \in remoteOrgs)
    /\ [](( ~full /\ Succeeded ) =>
            \A b \in localBuckets :
                ( BucketSelected(b) /\ b.Name \notin {"_tasks", "_monitoring"} ) =>
                    \E j \in Made("CreateBucket") : calls[j].ok /\ calls[j].from = b.ID)

\* The server had organization "acme" under ID 4 while the backup has it
\* under ID 1: bucket 1 of the backup's organization 1 was created in
\* organization 4.
C23_Witness ==
    /\ ~full
    /\ Succeeded
    /\ newOrgName = ""
    /\ [ID |-> 4, Name |-> "acme"] \in remoteOrgs
    /\ \E j \in Made("CreateBucket") :
          calls[j].ok /\ calls[j].from = 1 /\ calls[j].org = 4
    /\ \E j \in Made("FindOrganization") : calls[j].ok /\ calls[j].from = 1

\* The backup-time IDs of the organizations looked up on the server.
LookedUp == { calls[j].from : j \in Made("FindOrganization") }

\* C24: in partial restore the organizations listed for the run are exactly
\* the organizations of the local copy that match the organization filter,
\* all of them when there is no filter; only those are looked up or created
\* on the server, and a run that succeeds has looked up every one of them.
C24_OrganizationSelection ==
    /\ [][( ~full /\ pc = "orgs" /\ pc' = "org" ) =>
            orgs' = { o \in localOrgs : OrgSelected(o) }]_vars
    /\ [](~full =>
            /\ \A j \in Made("FindOrganization") \cup Made("CreateOrganization") :
                  \E o \in localOrgs : o.ID = calls[j].from /\ OrgSelected(o)
            /\ Succeeded =>
                  /\ LookedUp = { o.ID : o \in { x \in localOrgs : OrgSelected(x) } }
                  /\ ( org.id = "" /\ org.name = "" ) =>
                        LookedUp = { o.ID : o \in localOrgs })

\* With --org acme the run succeeded having looked up organization 1 alone.
C24_Witness ==
    /\ ~full
    /\ Succeeded
    /\ org.id = ""
    /\ org.name = "acme"
    /\ LookedUp = {1}
    /\ Cardinality(localOrgs) = 2

\* The endpoints only the partial executor calls.
PartialOnly == {"FindOrganization", "CreateOrganization", "CreateBucket", "RestoreBucket"}

\* C25: the executor is chosen by --full alone. With it, the run never
\* enters the partial executor, opens no local store, calls none of the
\* partial executor's endpoints, transfers shards under their own IDs only,
\* and on success has transferred every entry of the plan whatever the
\* organization and bucket filters are; without it, the run never enters
\* the full executor and never replaces the server's metadata store.
C25_OneExecutorByFullFlag ==
    /\ full =>
          /\ pc \notin InsidePartial \cup {"partial"}
          /\ boltOpen = "unopened"
          /\ \A j \in 1 .. Len(calls) : calls[j].op \notin PartialOnly
          /\ \A j \in Made("RestoreShard") : calls[j].id = calls[j].from
          /\ Succeeded => \A s \in DOMAIN shardEntries : Transferred(s)
    /\ ~full =>
          /\ pc \notin {"full", "shards"}
          /\ Made("RestoreKVStore") = {}
          /\ remoteKV = << "live" >>

\* A full restore given --org acme and --bucket data succeeded having
\* transferred the shard of bucket "logs" of the other organization too.
C25_Witness ==
    /\ full
    /\ org.name = "acme"
    /\ bucketName = "data"
    /\ Succeeded
    /\ 3 \in DOMAIN shardEntries
    /\ Transferred(3)
    /\ Made("RestoreKVStore") # {}

(***************************************************************************)
(* Further properties of the loader.                                       *)
(***************************************************************************)
\* The descriptors of shard s whose archive is in the backup directory.
ExistingOf(s) == { x \in DescriptorsOf(s) : x.entry.FileName \in disk }

\* C26: after loadIncremental the plan's entry of a shard is, among the
\* descriptors of that shard whose archive exists, one of the greatest
\* timestamp, and among those of that timestamp the one of the manifest of
\* the greatest file name: of two descriptors with equal timestamps the one
\* met first is kept.
C26_EqualTimestampsKeepFirst ==
    LoadOK =>
        \A s \in LoadShardIDs :
            ExistingOf(s) # {} =>
                /\ s \in DOMAIN shardEntries
                /\ \E x \in ExistingOf(s) :
                      /\ shardEntries[s] = x.entry
                      /\ \A y \in ExistingOf(s) :
                            \/ y.entry.LastModified < x.entry.LastModified
                            \/ /\ y.entry.LastModified = x.entry.LastModified
                               /\ y.manifest <= x.manifest

\* Manifests 1 and 2 both describe shard 1 with the same timestamp and both
\* archives exist: the plan holds the descriptor of manifest 2.
C26_Witness ==
    /\ LoadOK
    /\ \E x, y \in ExistingOf(1) :
          /\ x.manifest = 1
          /\ y.manifest = 2
          /\ x.entry.LastModified = y.entry.LastModified
          /\ 1 \in DOMAIN shardEntries
          /\ shardEntries[1] = y.entry

(***************************************************************************)
(* Further properties of the partial executor.                             *)
(***************************************************************************)
\* C27: in partial restore, when --org-id and --org are both given, the
\* organizations looked up or created are those of that ID, whatever their
\* name, and a run that succeeds has looked up the organization of that ID;
\* when --bucket-id and --bucket are both given, the buckets created are
\* those of that ID, and a run that succeeds has created the bucket of that
\* ID if it is in a selected organization and not internal.
C27_IDFilterWins ==
    ~full =>
        /\ ( org.id # "" /\ org.name # "" ) =>
              /\ \A j \in Made("FindOrganization") \cup Made("CreateOrganization") :
                    IDString(calls[j].from) = org.id
              /\ Succeeded =>
                    \A o \in localOrgs : IDString(o.ID) = org.id => o.ID \in LookedUp
        /\ ( bucketID # "" /\ bucketName # "" ) =>
              /\ \A j \in Made("CreateBucket") : IDString(calls[j].from) = bucketID
              /\ Succeeded =>
                    \A b \in localBuckets :
                        ( /\ IDString(b.ID) = bucketID
                          /\ \E o \in localOrgs : o.ID = b.OrgID /\ OrgSelected(o)
                          /\ b.Name \notin {"_tasks", "_monitoring"} ) =>
                            \E j \in Made("CreateBucket") : calls[j].from = b.ID

\* With --org-id of "acme" beside --org beta, and --bucket-id of "data"
\* beside --bucket logs, the run succeeded having restored "acme" and "data"
\* and neither "beta" nor "logs".
C27_Witness ==
    /\ ~full
    /\ Succeeded
    /\ org = [id |-> IDString(1), name |-> "beta"]
    /\ bucketID = IDString(1)
    /\ bucketName = "logs"
    /\ LookedUp = {1}
    /\ { calls[j].from : j \in Made("CreateBucket") } = {1}

\* --org-id parses and the organization filter matches no organization of
\* the local copy.
NoOrgSelected ==
    /\ org.id # "" => IDFromString(org.id).ok
    /\ \A o \in localOrgs : ~OrgSelected(o)

\* --bucket-id parses, some organization is selected, and every selected
\* bucket, if any, is internal.
NoBucketSelected ==
    /\ bucketID # "" => IDFromString(bucketID).ok
    /\ \E o \in localOrgs : OrgSelected(o)
    /\ \A b \in localBuckets : BucketSelected(b) => b.Name \in {"_tasks", "_monitoring"}

\* C28: in partial restore, when the organization filter matches no
\* organization of the local copy, no remote call is ever made and the run,
\* once the organizations are listed, ends with success; when an organization
\* is selected but no bucket that is not internal, no bucket is created, no
\* catalog restored and no shard transferred, listing the buckets is
\* followed by no error, and a run that succeeds has looked up every
\* selected organization and left it on the server, found or created.
C28_NothingSelected ==
    /\ [](( ~full /\ NoOrgSelected ) =>
            /\ calls = << >>
            /\ pc \notin {"buckets", "bucket", "catalog", "bshards"})
    /\ [][( ~full /\ NoOrgSelected /\ pc = "org" ) =>
            pc' = "done" /\ err' = "" /\ calls' = << >>]_vars
    /\ [](( ~full /\ NoBucketSelected ) =>
            /\ Made("CreateBucket") = {}
            /\ Made("RestoreBucket") = {}
            /\ Made("RestoreShard") = {}
            /\ pc \notin {"catalog", "bshards"}
            /\ Succeeded =>
                  \A o \in localOrgs :
                      OrgSelected(o) =>
                          /\ o.ID \in LookedUp
                          /\ \E r \in remoteOrgs : r.Name = TargetName(o))
    /\ [][( ~full /\ NoBucketSelected /\ pc = "bucket" ) =>
            pc' \in {"bucket", "org"} /\ err' = "" /\ calls' = calls]_vars
    /\ [][( ~full /\ NoBucketSelected /\ pc = "org" /\ orgs = {} ) =>
            pc' = "done" /\ err' = ""]_vars

\* With --bucket _tasks on an empty server the run succeeded: organization
\* "acme" was looked up, not found and created, and nothing else was done.
C28_Witness ==
    /\ ~full
    /\ Succeeded
    /\ NoBucketSelected
    /\ bucketName = "_tasks"
    /\ \E j \in Made("CreateOrganization") : calls[j].ok /\ calls[j].name = "acme"
    /\ Made("CreateBucket") = {}
    /\ Made("RestoreShard") = {}

(***************************************************************************)
(* Properties of a partial restore run twice.                              *)
(***************************************************************************)
\* The first run ended right after a successful bucket creation: the
\* bucket's catalog was absent from the local copy or could not be
\* serialized.
FirstRunLeftBucket ==
    /\ Len(earlier) = 1
    /\ earlier[1] # << >>
    /\ earlier[1][Len(earlier[1])].op = "CreateBucket"
    /\ earlier[1][Len(earlier[1])].ok

\* C29: a partial restore that ends because the bucket's catalog is absent
\* from the local copy, or cannot be serialized, has the successful
\* creation of that bucket as its last remote call, and the bucket is on
\* the server without a shard catalog; a second run with the same arguments
\* never succeeds, never restores that bucket's catalog, and every creation
\* of that bucket it attempts fails and ends it with the bucket-creation
\* error.
C29_EmptyBucketLeftBehind ==
    /\ ( /\ pc = "done"
         /\ err \in {"bucket database not found", "cannot marshal database info"} ) =>
            /\ calls # << >>
            /\ LastCall.op = "CreateBucket"
            /\ LastCall.ok
            /\ [ID |-> LastCall.id, OrgID |-> LastCall.org, Name |-> LastCall.name]
                  \in remoteBuckets
            /\ LastCall.id \notin DOMAIN remoteDBs
    /\ FirstRunLeftBucket =>
            LET c == earlier[1][Len(earlier[1])]
            IN  /\ [ID |-> c.id, OrgID |-> c.org, Name |-> c.name] \in remoteBuckets
                /\ c.id \notin DOMAIN remoteDBs
                /\ ~Succeeded
                /\ \A j \in Made("RestoreBucket") : calls[j].from # c.from
                /\ \A j \in Made("CreateBucket") :
                      calls[j].from = c.from =>
                          /\ ~calls[j].ok
                          /\ calls[j].org = c.org
                          /\ calls[j].name = c.name
                          /\ j = Len(calls)
                          /\ pc = "done"
                          /\ err = "cannot create bucket"

\* The first run created bucket "data" and ended because its catalog is
\* absent from the local copy; the second run ended at the creation of
\* "data".
C29_Witness ==
    /\ FirstRunLeftBucket
    /\ IDString(1) \notin DOMAIN localDBs
    /\ earlier[1][Len(earlier[1])].from = 1
    /\ pc = "done"
    /\ err = "cannot create bucket"
    /\ LastCall.op = "CreateBucket"
    /\ LastCall.from = 1
    /\ ~LastCall.ok

\* The shards, by their backup-time IDs, that a sequence of remote calls
\* delivered.
Delivered(cs) ==
    { cs[j].from : j \in { k \in 1 .. Len(cs) : cs[k].op = "RestoreShard" /\ cs[k].ok } }

\* A remote call other than a shard transfer.
NotTransfer(c) == c.op # "RestoreShard"

\* The second run was given, call for call, the responses of the first to
\* everything but the shard transfers, and every transfer of both runs was
\* accepted.
SameResponses ==
    /\ Len(earlier) = 1
    /\ SelectSeq(calls, NotTransfer) = SelectSeq(earlier[1], NotTransfer)
    /\ \A j \in 1 .. Len(calls) : NotTransfer(calls[j]) \/ calls[j].ok
    /\ \A j \in 1 .. Len(earlier[1]) : NotTransfer(earlier[1][j]) \/ earlier[1][j].ok

\* C30: two partial restores of the same backup directory under the same
\* flags against the same server, both ending with success after the same
\* remote responses, deliver the same set of shards.
C30_DeliveredSetDeterministic ==
    ( /\ Len(earlier) = 1
      /\ Succeeded
      /\ SameResponses ) =>
        Delivered(calls) = Delivered(earlier[1])

====
